---- MODULE Spec2Model ----
(***************************************************************************)
(* FoodPrint-AI: the ingredient-to-footprint engine.                       *)
(*                                                                         *)
(* Strings are sequences of one-character strings, so that the regular     *)
(* expressions of normalizeIngredientName and the substring tests of       *)
(* findBestIngredientMatch are computed character by character.            *)
(* Numbers are fixed-point integers in units of 1/10000 (Scale), so that   *)
(* 6.9 is 69000 and the confidence 0.8 is 8000; the JavaScript values that  *)
(* are not finite numbers (undefined, a function object, NaN) are the       *)
(* negative markers below.                                                 *)
(***************************************************************************)
EXTENDS Integers, Sequences, FiniteSets, TLC

\* ------------------------------------------------------------------------
\* JavaScript values
\* ------------------------------------------------------------------------

\* Fixed-point scale: the number 1.0.
Scale == 10000

\* `undefined`: a missing property, an absent optional field.
Undefined == -2

\* A function object, as found on Object.prototype.
FunctionObject == -3

\* NaN, the result of arithmetic on a value that is not a number.
NaN == -1

IsNumber(v) == v >= 0

\* JavaScript truthiness of the values above: undefined, 0 and NaN are falsy.
Truthy(v) == v = FunctionObject \/ v > 0

\* ToNumber: a function object converts to NaN, undefined converts to NaN.
ToNumber(v) == IF IsNumber(v) THEN v ELSE NaN

\* a * b on fixed-point numbers; NaN is absorbing.
Mul(a, b) ==
  IF ToNumber(a) = NaN \/ ToNumber(b) = NaN THEN NaN ELSE (a * b) \div Scale

\* a + b; NaN is absorbing.
Add(a, b) ==
  IF ToNumber(a) = NaN \/ ToNumber(b) = NaN THEN NaN ELSE a + b

\* Math.round(x * 100) / 100: round half up to two decimals.
Round2(x) ==
  IF ToNumber(x) = NaN THEN NaN ELSE ((x + 50) \div 100) * 100

\* ------------------------------------------------------------------------
\* Characters
\* ------------------------------------------------------------------------

LowerLetters ==
  {"a", "b", "c", "d", "e", "f", "g", "h", "i", "j", "k", "l", "m",
   "n", "o", "p", "q", "r", "s", "t", "u", "v", "w", "x", "y", "z"}

UpperLetters ==
  {"A", "B", "C", "D", "E", "F", "G", "H", "I", "J", "K", "L", "M",
   "N", "O", "P", "Q", "R", "S", "T", "U", "V", "W", "X", "Y", "Z"}

Digits == {"0", "1", "2", "3", "4", "5", "6", "7", "8", "9"}

\* The characters the regular expression class \s and trim() treat as space.
Whitespace == {" ", "\t", "\n"}

\* The regular expression class \w, which decides the word boundary \b.
WordChars == LowerLetters \cup UpperLetters \cup Digits \cup {"_"}

LowerOf ==
  "A" :> "a" @@ "B" :> "b" @@ "C" :> "c" @@ "D" :> "d" @@ "E" :> "e" @@
  "F" :> "f" @@ "G" :> "g" @@ "H" :> "h" @@ "I" :> "i" @@ "J" :> "j" @@
  "K" :> "k" @@ "L" :> "l" @@ "M" :> "m" @@ "N" :> "n" @@ "O" :> "o" @@
  "P" :> "p" @@ "Q" :> "q" @@ "R" :> "r" @@ "S" :> "s" @@ "T" :> "t" @@
  "U" :> "u" @@ "V" :> "v" @@ "W" :> "w" @@ "X" :> "x" @@ "Y" :> "y" @@
  "Z" :> "z"

UpperOf ==
  "a" :> "A" @@ "b" :> "B" @@ "c" :> "C" @@ "d" :> "D" @@ "e" :> "E" @@
  "f" :> "F" @@ "g" :> "G" @@ "h" :> "H" @@ "i" :> "I" @@ "j" :> "J" @@
  "k" :> "K" @@ "l" :> "L" @@ "m" :> "M" @@ "n" :> "N" @@ "o" :> "O" @@
  "p" :> "P" @@ "q" :> "Q" @@ "r" :> "R" @@ "s" :> "S" @@ "t" :> "T" @@
  "u" :> "U" @@ "v" :> "V" @@ "w" :> "W" @@ "x" :> "X" @@ "y" :> "Y" @@
  "z" :> "Z"

\* ------------------------------------------------------------------------
\* String methods
\* ------------------------------------------------------------------------

\* String.prototype.toLowerCase
toLowerCase(s) ==
  [i \in 1..Len(s) |-> IF s[i] \in UpperLetters THEN LowerOf[s[i]] ELSE s[i]]

\* The positions of s that hold a character other than whitespace.
NonWhitespaceAt(s) == {i \in 1..Len(s) : s[i] \notin Whitespace}

\* s from its first character that is not whitespace.
trimStart(s) ==
  IF NonWhitespaceAt(s) = {} THEN <<>>
  ELSE SubSeq(s, CHOOSE i \in NonWhitespaceAt(s) :
                   \A j \in NonWhitespaceAt(s) : i <= j, Len(s))

\* s up to its last character that is not whitespace.
trimEnd(s) ==
  IF NonWhitespaceAt(s) = {} THEN <<>>
  ELSE SubSeq(s, 1, CHOOSE i \in NonWhitespaceAt(s) :
                      \A j \in NonWhitespaceAt(s) : i >= j)

\* String.prototype.trim
trim(s) == trimEnd(trimStart(s))

\* s.replace(/[^a-z0-9\s]/g, '')
stripNonAlnum(s) ==
  SelectSeq(s, LAMBDA c : c \in LowerLetters \cup Digits \cup Whitespace)

\* s.replace(/\s+/g, ' ')
RECURSIVE collapseWhitespace(_)
collapseWhitespace(s) ==
  IF s = <<>> THEN <<>>
  ELSE IF Head(s) \in Whitespace
       THEN <<" ">> \o collapseWhitespace(trimStart(s))
       ELSE <<Head(s)>> \o collapseWhitespace(Tail(s))

\* The alternatives of /\b(fresh|dried|raw|cooked|organic|ground)\b/g, in order.
Qualifiers ==
  << <<"f", "r", "e", "s", "h">>,
     <<"d", "r", "i", "e", "d">>,
     <<"r", "a", "w">>,
     <<"c", "o", "o", "k", "e", "d">>,
     <<"o", "r", "g", "a", "n", "i", "c">>,
     <<"g", "r", "o", "u", "n", "d">> >>

\* Is position i of s (1-based) a word character?  Positions outside s are not.
IsWordAt(s, i) == i \in 1..Len(s) /\ s[i] \in WordChars

\* \b between positions i - 1 and i of s.
BoundaryAt(s, i) == IsWordAt(s, i - 1) # IsWordAt(s, i)

\* Does \b w \b match s at position i?
QualifierAt(s, i, w) ==
  /\ i + Len(w) - 1 <= Len(s)
  /\ SubSeq(s, i, i + Len(w) - 1) = w
  /\ BoundaryAt(s, i)
  /\ BoundaryAt(s, i + Len(w))

\* The global replace scans s from position i on: a match is dropped and the
\* scan resumes after it, any other character is kept.
RECURSIVE removeQualifiersFrom(_, _)
removeQualifiersFrom(s, i) ==
  IF i > Len(s) THEN <<>>
  ELSE IF \E q \in 1..Len(Qualifiers) : QualifierAt(s, i, Qualifiers[q])
       THEN LET q == CHOOSE q \in 1..Len(Qualifiers) :
                       /\ QualifierAt(s, i, Qualifiers[q])
                       /\ \A p \in 1..(q - 1) : ~QualifierAt(s, i, Qualifiers[p])
            IN  removeQualifiersFrom(s, i + Len(Qualifiers[q]))
       ELSE <<s[i]>> \o removeQualifiersFrom(s, i + 1)

\* s.replace(/\b(fresh|dried|raw|cooked|organic|ground)\b/g, '')
removeQualifiers(s) == removeQualifiersFrom(s, 1)

\* s.includes(t)
includes(s, t) ==
  \E i \in 0..(Len(s) - Len(t)) : SubSeq(s, i + 1, i + Len(t)) = t

\* ------------------------------------------------------------------------
\* utils/helpers: normalizeIngredientName
\* ------------------------------------------------------------------------

normalizeIngredientName(name) ==
  trim(removeQualifiers(collapseWhitespace(stripNonAlnum(trim(toLowerCase(name))))))

\* ------------------------------------------------------------------------
\* utils/constants: CARBON_FOOTPRINT_DB
\* ------------------------------------------------------------------------

\* The keys of the table in insertion order, which is the order of Object.keys.
DbKeys ==
  << <<"b", "e", "e", "f">>,
     <<"l", "a", "m", "b">>,
     <<"p", "o", "r", "k">>,
     <<"c", "h", "i", "c", "k", "e", "n">>,
     <<"f", "i", "s", "h">>,
     <<"s", "h", "r", "i", "m", "p">>,
     <<"e", "g", "g", "s">>,
     <<"m", "i", "l", "k">>,
     <<"c", "h", "e", "e", "s", "e">>,
     <<"b", "u", "t", "t", "e", "r">>,
     <<"r", "i", "c", "e">>,
     <<"w", "h", "e", "a", "t">>,
     <<"b", "r", "e", "a", "d">>,
     <<"p", "a", "s", "t", "a">>,
     <<"p", "o", "t", "a", "t", "o", "e", "s">>,
     <<"t", "o", "m", "a", "t", "o", "e", "s">>,
     <<"o", "n", "i", "o", "n", "s">>,
     <<"c", "a", "r", "r", "o", "t", "s">>,
     <<"o", "l", "i", "v", "e", " ", "o", "i", "l">>,
     <<"v", "e", "g", "e", "t", "a", "b", "l", "e", " ", "o", "i", "l">>,
     <<"s", "a", "l", "t">>,
     <<"s", "u", "g", "a", "r">>,
     <<"b", "e", "a", "n", "s">>,
     <<"l", "e", "n", "t", "i", "l", "s">>,
     <<"t", "o", "f", "u">>,
     <<"n", "u", "t", "s">>,
     <<"s", "p", "i", "c", "e", "s">>,
     <<"u", "n", "k", "n", "o", "w", "n">> >>

\* The values of the table, entry by entry, in units of 1/Scale.
DbValues ==
  << 600000, 392000, 121000, 69000, 61000, 180000, 42000,
     32000, 135000, 238000, 40000, 14000, 16000, 11000,
     5000, 21000, 5000, 4000, 54000, 32000, 1000,
     18000, 20000, 19000, 30000, 23000, 10000, 20000 >>

\* The table as an object: its own keys in order and the value of each.
CARBON_FOOTPRINT_DB ==
  [keys |-> DbKeys,
   value |-> [k \in {DbKeys[i] : i \in 1..Len(DbKeys)} |->
                DbValues[CHOOSE i \in 1..Len(DbKeys) : DbKeys[i] = k]]]

\* Method names every object inherits from Object.prototype.
ObjectPrototypeProps ==
  { <<"c", "o", "n", "s", "t", "r", "u", "c", "t", "o", "r">>,
    <<"t", "o", "S", "t", "r", "i", "n", "g">>,
    <<"v", "a", "l", "u", "e", "O", "f">>,
    <<"h", "a", "s", "O", "w", "n", "P", "r", "o", "p", "e", "r", "t", "y">> }

OwnKeys(database) == {database.keys[i] : i \in 1..Len(database.keys)}

\* database[key]: an own property, else one inherited from Object.prototype,
\* else undefined.
Lookup(database, key) ==
  IF key \in OwnKeys(database) THEN database.value[key]
  ELSE IF key \in ObjectPrototypeProps THEN FunctionObject
  ELSE Undefined

\* ------------------------------------------------------------------------
\* utils/helpers: findBestIngredientMatch
\* ------------------------------------------------------------------------

\* Confidence of an exact match, of a substring match and of the fallback.
ExactConfidence == 10000
PartialConfidence == 8000
FallbackConfidence == 3000

\* The key of the fallback entry.
UnknownKey == <<"u", "n", "k", "n", "o", "w", "n">>

\* dbKeys.filter(key => normalized.includes(key) || key.includes(normalized))
partialMatches(normalized, database) ==
  SelectSeq(database.keys,
            LAMBDA key : includes(normalized, key) \/ includes(key, normalized))

\* keys.reduce((a, b) => a.length > b.length ? a : b), keys not empty.
RECURSIVE reduceLongest(_, _)
reduceLongest(a, rest) ==
  IF rest = <<>> THEN a
  ELSE reduceLongest(IF Len(a) > Len(Head(rest)) THEN a ELSE Head(rest),
                     Tail(rest))

bestMatch(matches) == reduceLongest(Head(matches), Tail(matches))

\* The matcher without its exact-match rule.
findBestWithoutExactRule(ingredientName, database) ==
  LET normalized == normalizeIngredientName(ingredientName)
      matches == partialMatches(normalized, database)
  IN  IF Len(matches) > 0
      THEN [key |-> bestMatch(matches), confidence |-> PartialConfidence]
      ELSE [key |-> UnknownKey, confidence |-> FallbackConfidence]

\* The matcher looking up the name as given, without normalizing it again.
findBestWithoutNormalizing(ingredientName, database) ==
  LET matches == partialMatches(ingredientName, database)
  IN  IF Truthy(Lookup(database, ingredientName))
      THEN [key |-> ingredientName, confidence |-> ExactConfidence]
      ELSE IF Len(matches) > 0
           THEN [key |-> bestMatch(matches), confidence |-> PartialConfidence]
           ELSE [key |-> UnknownKey, confidence |-> FallbackConfidence]

findBestIngredientMatch(ingredientName, database) ==
  LET normalized == normalizeIngredientName(ingredientName)
      matches == partialMatches(normalized, database)
  IN  IF Truthy(Lookup(database, normalized))
      THEN [key |-> normalized, confidence |-> ExactConfidence]
      ELSE IF Len(matches) > 0
           THEN [key |-> bestMatch(matches), confidence |-> PartialConfidence]
           ELSE [key |-> UnknownKey, confidence |-> FallbackConfidence]

\* ------------------------------------------------------------------------
\* Inputs
\* ------------------------------------------------------------------------

\* Names taken from the tests and names chosen for the branches of the
\* matcher: exact keys, substrings of one or of several keys, names no key
\* matches, names of inherited object properties, the empty name.
BaseNames ==
  { <<"c", "h", "i", "c", "k", "e", "n">>,
    <<"r", "i", "c", "e">>,
    <<"C", "H", "I", "C", "K", "E", "N", " ", " ", "B", "R", "E", "A", "S", "T", " ", " ", " ">>,
    <<"f", "r", "e", "s", "h", " ", "o", "r", "g", "a", "n", "i", "c", " ", "r", "i", "c", "e">>,
    <<"e", "x", "o", "t", "i", "c", "_", "u", "n", "k", "n", "o", "w", "n", "_", "i", "n", "g", "r", "e", "d", "i", "e", "n", "t", "_", "x", "y", "z">>,
    <<"c", "o", "n", "s", "t", "r", "u", "c", "t", "o", "r">>,
    <<>>,
    <<"o", "e", "s">>,
    <<"c", "h", "i", "c", "k", "e", "n", " ", "b", "r", "e", "a", "s", "t">>,
    <<"o", "l", "i", "v", "e", " ", "o", "i", "l">>,
    <<"O", "l", "i", "v", "e", " ", "O", "i", "l">>,
    <<"x", "y", "z">>,
    <<"g", "r", "o", "u", "n", "d", " ", "b", "e", "e", "f">>,
    <<"u", "n", "k", "n", "o", "w", "n">>,
    <<"r", "a", "w">>,
    <<"t", "o", "S", "t", "r", "i", "n", "g">>,
    <<"e", "a">>,
    <<"a">>,
    <<"T", "o", "f", "u", "\t">>,
    <<"b", "r", "o", "w", "n", " ", "r", "i", "c", "e", "\n", "f", "r", "e", "s", "h">>,
    <<"v", "e", "g", "e", "t", "a", "b", "l", "e", " ", "o", "i", "l", " ", "a", "n", "d", " ", "o", "l", "i", "v", "e", " ", "o", "i", "l">>,
    <<"2", " ", "e", "g", "g", "s">>,
    <<"s", "p", "i", "c", "e", "s">>,
    <<"b", "e", "a", "n", "s", ",", " ", "d", "r", "i", "e", "d">>,
    <<"c", "h", "i", "c", "k", "e", "n", " ", "o", "l", "i", "v", "e", " ", "o", "i", "l">>,
    <<"c", "h", "i", "c", "k", "e", "n", " ", "f", "r", "e", "s", "h", " ", "b", "r", "e", "a", "s", "t">>,
    <<"o", "l", "i", "v", "e", " ", "f", "r", "e", "s", "h", " ", "o", "i", "l">>,
    <<"c", "h", "i", "c", "k", "e", "n", " ", "o", "l", "i", "v", "e", " ", "f", "r", "e", "s", "h", " ", "o", "i", "l">> }

\* Words and separators that two-word names are built from.
Words ==
  { <<"c", "h", "i", "c", "k", "e", "n">>,
    <<"r", "i", "c", "e">>,
    <<"f", "r", "e", "s", "h">>,
    <<"o", "l", "i", "v", "e">>,
    <<"o", "i", "l">>,
    <<"o", "e", "s">>,
    <<"x", "y", "z">>,
    <<"g", "r", "o", "u", "n", "d">> }

Separators == { <<" ">>,
               <<" ", " ">>,
               <<"-">>,
               <<>> }

TwoWordNames == {a \o s \o b : a \in Words, s \in Separators, b \in Words}


\* String.prototype.toUpperCase, used to write a name in another letter case.
toUpperCase(s) ==
  [i \in 1..Len(s) |-> IF s[i] \in LowerLetters THEN UpperOf[s[i]] ELSE s[i]]

\* s with the string t inserted after its first p characters.
InsertAt(s, p, t) == SubSeq(s, 1, p) \o t \o SubSeq(s, p + 1, Len(s))

\* Characters that normalization strips.
Punctuation == {",", "_"}

\* The same name in another letter case.
CaseVariants(s) ==
  {toUpperCase(s)} \cup
  {[i \in 1..Len(s) |-> IF i = 1 /\ s[i] \in LowerLetters THEN UpperOf[s[i]] ELSE s[i]]}

\* The same name with leading, trailing or repeated whitespace.
WhitespaceVariants(s) ==
  {<<" ">> \o s, s \o <<" ">>, <<"\t">> \o s \o <<"\n", " ">>} \cup
  {InsertAt(s, p, <<w>>) : p \in {q \in 1..Len(s) : s[q] \in Whitespace},
                           w \in {" ", "\n"}}

\* The same name with a punctuation character added anywhere.
PunctuationVariants(s) ==
  {InsertAt(s, p, <<c>>) : p \in 0..Len(s), c \in Punctuation}

\* The same name with a standalone qualifier word added in front, at the end
\* or after any whitespace.
QualifierVariants(s) ==
  UNION {{Qualifiers[q] \o <<" ">> \o s, s \o <<" ">> \o Qualifiers[q]} \cup
         {InsertAt(s, p, Qualifiers[q] \o <<" ">>) :
            p \in {r \in 1..Len(s) : s[r] \in Whitespace}}
         : q \in 1..Len(Qualifiers)}

Variants(s) ==
  (CaseVariants(s) \cup WhitespaceVariants(s) \cup PunctuationVariants(s)
     \cup QualifierVariants(s)) \ {s}

\* The value of `name` when the collaborator delivered no string.
NotAString == <<"undefined">>

IsString(v) == v # NotAString

Names == BaseNames \cup TwoWordNames

\* Confidences a raw ingredient may carry: absent, 0, 0.333, 0.5, 0.9.
Confidences == {Undefined, 0, 3330, 5000, 9000}

\* The longest ingredient list.
MaxIngredients == 2

\* The ingredients that lists of every length are built from.
Menu ==
  { [name |-> <<"c", "h", "i", "c", "k", "e", "n">>, confidence |-> 9000],
    [name |-> <<"r", "i", "c", "e">>, confidence |-> 8000],
    [name |-> <<"c", "o", "n", "s", "t", "r", "u", "c", "t", "o", "r">>,
     confidence |-> Undefined],
    [name |-> <<"F", "r", "e", "s", "h", " ", " ", "L", "a", "m", "b">>,
     confidence |-> 3330],
    [name |-> NotAString, confidence |-> 5000] }

MenuLists == UNION {[1..n -> Menu] : n \in 0..MaxIngredients}

SingleLists ==
  {<<[name |-> n, confidence |-> c]>> : n \in Names, c \in Confidences}

\* A name followed by one of its variants, with the same confidence.
VariantLists ==
  UNION {{<<[name |-> b, confidence |-> c], [name |-> v, confidence |-> c]>> :
            v \in Variants(b), c \in {Undefined, 5000}} : b \in BaseNames}

IngredientLists == MenuLists \cup SingleLists \cup VariantLists

DishNames == {"Chicken Rice", "Unknown Dish"}

Sources == {"text", "image"}

\* ------------------------------------------------------------------------
\* services/carbonService: calculateCarbonFootprint
\* ------------------------------------------------------------------------

\* The confidence used when the raw ingredient carries none.
DefaultConfidence == 8000

\* ingredient.confidence || 0.8
rawConfidence(ingredient) ==
  IF Truthy(ingredient.confidence) THEN ingredient.confidence
  ELSE DefaultConfidence

\* The map callback returning the normalized name in place of the original.
processIngredientRenamed(ingredient, m) ==
  [name |-> normalizeIngredientName(ingredient.name),
   carbon_kg |-> Round2(Lookup(CARBON_FOOTPRINT_DB, m.key)),
   confidence |-> Round2(Mul(m.confidence, rawConfidence(ingredient)))]

\* The value the map callback returns for one ingredient.  The matcher
\* returns an object on every path, so the branch `if (match)` is always
\* taken and the initial carbonValue and confidence are always overwritten.
processIngredient(ingredient, m) ==
  LET carbonValue == Lookup(CARBON_FOOTPRINT_DB, m.key)
      confidence == Mul(m.confidence, rawConfidence(ingredient))
  IN  [name |-> ingredient.name,
       carbon_kg |-> Round2(carbonValue),
       confidence |-> Round2(confidence)]

\* processed.reduce((sum, ingredient) => sum + ingredient.carbon_kg, 0)
RECURSIVE reduceSum(_, _)
reduceSum(sum, rest) ==
  IF rest = <<>> THEN sum
  ELSE reduceSum(Add(sum, Head(rest).carbon_kg), Tail(rest))

\* The reduce adding up the wrong field of each entry.
RECURSIVE reduceSumOfConfidence(_, _)
reduceSumOfConfidence(sum, rest) ==
  IF rest = <<>> THEN sum
  ELSE reduceSumOfConfidence(Add(sum, Head(rest).confidence), Tail(rest))

totalCarbonOfConfidence(processed) == reduceSumOfConfidence(0, processed)

totalCarbon(processed) == reduceSum(0, processed)

\* The CarbonEstimate returned (the timing metadata, which depends on the
\* clock, is left out).
carbonEstimate(dish, processed, src) ==
  [dish |-> dish,
   estimated_carbon_kg |-> Round2(totalCarbon(processed)),
   ingredients |-> processed,
   source |-> src]

VARIABLES
  dishName,              \* argument: the dish name
  ingredients,           \* argument: the raw ingredients
  source,                \* argument: "text" or "image"
  pc,                    \* position in calculateCarbonFootprint
  normalizedName,        \* local of the map callback
  match,                 \* local of the map callback
  matcherNormalized,     \* local `normalized` of the last matcher call
  matchTrace,            \* the values the matcher returned, one per ingredient
  processedIngredients,  \* the array the map builds
  result                 \* the value returned

\* The state of one request to POST /estimate passing validateTextEstimation
\* and, on a rejection, errorHandler.
VARIABLES
  submitted,             \* the body the client sent
  body,                  \* req.body
  textPc,                \* position of the request in the middleware chain
  textError,             \* the error handed to next, if any
  textResponse,          \* the response errorHandler sent, if any
  textNextCalls          \* how many times the validator has called next

\* The state of one request to POST /estimate/image passing
\* validateImageUpload.
VARIABLES
  file,                  \* req.file
  imagePc,               \* position of the request in the middleware chain
  imageError,            \* the error handed to next, if any
  imageNextCalls         \* how many times the validator has called next

\* The state of the Express application: the store of the rate limiter and
\* the request that is passing the middleware chain.
VARIABLES
  hits,                  \* the store of rateLimiter: key -> requests counted
  request,               \* the request as the client sent it
  reqAuth,               \* req.auth?.apiKey, <<>> while req.auth is undefined
  rateKey,               \* the key keyGenerator returned for the request
  serverPc,              \* the middleware the request is at
  serverError,           \* the error handed to next, if any
  serverResponse,        \* the response sent, if any
  responsesSent          \* how many responses were sent for the request

\* The state of one call of extractIngredientsFromDish or analyzeImage.
VARIABLES
  aiCall,                \* the service called, its argument and what OpenAI does
  aiPc,                  \* position in the call
  aiTimer,               \* the timer of timeoutPromise
  aiRequest,             \* the promise of openai.chat.completions.create
  aiOutcome              \* how the promise the call returned has settled

carbonVars ==
  <<dishName, ingredients, source, pc, normalizedName, match,
    matcherNormalized, matchTrace, processedIngredients, result>>

textVars ==
  <<submitted, body, textPc, textError, textResponse, textNextCalls>>

imageVars == <<file, imagePc, imageError, imageNextCalls>>

serverVars ==
  <<hits, request, reqAuth, rateKey, serverPc, serverError, serverResponse,
    responsesSent>>

aiVars == <<aiCall, aiPc, aiTimer, aiRequest, aiOutcome>>

vars == <<carbonVars, textVars, imageVars, serverVars, aiVars>>

\* No error: the argument of next() on acceptance.
NoError ==
  [class |-> "", name |-> "", statusCode |-> 0, code |-> "", message |-> "",
   field |-> <<>>, detail |-> ""]

\* No response: the request went on to the next handler.
NoResponse ==
  [status |-> 0, code |-> "", message |-> "", field |-> <<>>, detail |-> ""]

\* A request body that is absent: req.body is undefined.
NoBody == [kind |-> "undefined", props |-> <<>>]

\* An upload that is absent: req.file is undefined.
NoFile ==
  [present |-> FALSE, mimetype |-> "", size |-> 0, hasBuffer |-> FALSE,
   bufferLength |-> 0, header |-> <<>>, hasName |-> FALSE,
   originalname |-> <<>>]

\* No call of calculateCarbonFootprint is in progress.
CarbonIdle ==
  /\ dishName = ""
  /\ ingredients = <<>>
  /\ source = "text"
  /\ pc = "idle"
  /\ normalizedName = <<>>
  /\ match = [key |-> <<>>, confidence |-> Undefined]
  /\ matcherNormalized = <<>>
  /\ matchTrace = <<>>
  /\ processedIngredients = <<>>
  /\ result =
       [dish |-> "", estimated_carbon_kg |-> Undefined, ingredients |-> <<>>,
        source |-> ""]

\* No text request is in the chain.
TextIdle ==
  /\ submitted = NoBody
  /\ body = NoBody
  /\ textPc = "idle"
  /\ textError = NoError
  /\ textResponse = NoResponse
  /\ textNextCalls = 0

\* No upload is in the chain.
ImageIdle ==
  /\ file = NoFile
  /\ imagePc = "idle"
  /\ imageError = NoError
  /\ imageNextCalls = 0

\* The store of the rate limiter with no key in it.
NoHits == [k \in {} |-> 0]

\* No request.
NoRequest ==
  [ip |-> <<>>, xApiKey |-> <<>>, authorization |-> <<>>, method |-> "",
   path |-> "", json |-> "", body |-> NoBody, upload |-> NoFile]

\* The application has received no request.
ServerIdle ==
  /\ hits = NoHits
  /\ request = NoRequest
  /\ reqAuth = <<>>
  /\ rateKey = <<>>
  /\ serverPc = "idle"
  /\ serverError = NoError
  /\ serverResponse = NoResponse
  /\ responsesSent = 0

\* No call of an AI service.
NoAiCall == [service |-> "", argument |-> "", openai |-> "", content |-> ""]

NoOutcome == [state |-> "pending", class |-> "", message |-> ""]

\* No AI service has been called.
AiIdle ==
  /\ aiCall = NoAiCall
  /\ aiPc = "idle"
  /\ aiTimer = [state |-> "unset", delay |-> 0]
  /\ aiRequest = "unsent"
  /\ aiOutcome = NoOutcome

NoMatch == [key |-> <<>>, confidence |-> Undefined]

NoResult ==
  [dish |-> "", estimated_carbon_kg |-> Undefined, ingredients |-> <<>>,
   source |-> ""]

\* The ingredient the map callback is working on.
current == ingredients[Len(processedIngredients) + 1]

Init ==
  /\ dishName \in DishNames
  /\ ingredients \in IngredientLists
  /\ source \in Sources
  /\ pc = "map"
  /\ normalizedName = <<>>
  /\ match = NoMatch
  /\ matcherNormalized = <<>>
  /\ matchTrace = <<>>
  /\ processedIngredients = <<>>
  /\ result = NoResult
  /\ TextIdle
  /\ ImageIdle
  /\ ServerIdle
  /\ AiIdle

\* const normalizedName = normalizeIngredientName(ingredient.name): a name
\* that is not a string has no toLowerCase and the call throws a TypeError.
Normalize ==
  /\ pc = "map"
  /\ Len(processedIngredients) < Len(ingredients)
  /\ IF IsString(current.name)
     THEN /\ normalizedName' = normalizeIngredientName(current.name)
          /\ pc' = "match"
     ELSE /\ pc' = "thrown"
          /\ UNCHANGED normalizedName
  /\ UNCHANGED <<dishName, ingredients, source, match, matcherNormalized,
                 matchTrace, processedIngredients, result>>
  /\ UNCHANGED <<textVars, imageVars, serverVars, aiVars>>

\* const match = findBestIngredientMatch(normalizedName, CARBON_FOOTPRINT_DB)
Match ==
  /\ pc = "match"
  /\ match' = findBestIngredientMatch(normalizedName, CARBON_FOOTPRINT_DB)
  /\ matcherNormalized' = normalizeIngredientName(normalizedName)
  /\ matchTrace' = Append(matchTrace, match')
  /\ pc' = "blend"
  /\ UNCHANGED <<dishName, ingredients, source, normalizedName,
                 processedIngredients, result>>
  /\ UNCHANGED <<textVars, imageVars, serverVars, aiVars>>

\* The rest of the map callback: the carbon value, the blended confidence
\* and the rounded entry.
Blend ==
  /\ pc = "blend"
  /\ processedIngredients' =
       Append(processedIngredients, processIngredient(current, match))
  /\ pc' = "map"
  /\ UNCHANGED <<dishName, ingredients, source, normalizedName, match,
                 matcherNormalized, matchTrace, result>>
  /\ UNCHANGED <<textVars, imageVars, serverVars, aiVars>>

\* After the map: the total and the returned estimate.
Return ==
  /\ pc = "map"
  /\ Len(processedIngredients) = Len(ingredients)
  /\ result' = carbonEstimate(dishName, processedIngredients, source)
  /\ pc' = "done"
  /\ UNCHANGED <<dishName, ingredients, source, normalizedName, match,
                 matcherNormalized, matchTrace, processedIngredients>>
  /\ UNCHANGED <<textVars, imageVars, serverVars, aiVars>>

Next == Normalize \/ Match \/ Blend \/ Return

Spec == Init /\ [][Next]_vars

\* ------------------------------------------------------------------------
\* Properties
\* ------------------------------------------------------------------------

Db == CARBON_FOOTPRINT_DB

\* The literal values of the table.
TableValues == {DbValues[i] : i \in 1..Len(DbValues)}

AllNamesAreStrings ==
  \A i \in 1..Len(ingredients) : IsString(ingredients[i].name)

\* C1: normalization is idempotent.  The matcher normalizes the already
\* normalized name it is given, so its local `normalized` is
\* normalize(normalize(x)) and the callback's normalizedName is normalize(x):
\* the two are equal for every name.
C1_NormalizationIdempotent ==
  pc = "blend" => matcherNormalized = normalizedName

\* C2: matcher totality.  Whatever the name, the key the matcher returns is
\* one of the table's own keys and the table lookup of it is a number.
C2_MatcherTotality ==
  pc = "blend" =>
    /\ match.key \in OwnKeys(Db)
    /\ IsNumber(Lookup(Db, match.key))

SubstringKeys(k) ==
  SelectSeq(DbKeys, LAMBDA K : includes(k, K) \/ includes(K, k))

\* The first of the longest elements of a non-empty sequence of keys.
FirstLongest(keys) ==
  keys[CHOOSE i \in 1..Len(keys) :
         /\ \A j \in 1..Len(keys) : Len(keys[j]) <= Len(keys[i])
         /\ \A j \in 1..(i - 1) : Len(keys[j]) < Len(keys[i])]

\* The last of the longest elements of a non-empty sequence of keys.
LastLongest(keys) ==
  keys[CHOOSE i \in 1..Len(keys) :
         /\ \A j \in 1..Len(keys) : Len(keys[j]) <= Len(keys[i])
         /\ \A j \in (i + 1)..Len(keys) : Len(keys[j]) < Len(keys[i])]

\* C4: substring match.  When the canonical key is not a key of the table
\* and some table key contains it or is contained in it, the matcher returns
\* the longest such key with confidence 0.8, and among several longest keys
\* the first in table order.
C4_SubstringMatchFirstLongest ==
  (/\ pc = "blend"
   /\ normalizedName \notin OwnKeys(Db)
   /\ Len(SubstringKeys(normalizedName)) > 0) =>
    match = [key |-> FirstLongest(SubstringKeys(normalizedName)),
             confidence |-> PartialConfidence]

\* The sum of the carbon_kg values of a sequence of entries, from the right.
RECURSIVE SumOfCarbon(_)
SumOfCarbon(entries) ==
  IF entries = <<>> THEN 0
  ELSE Add(SumOfCarbon(SubSeq(entries, 1, Len(entries) - 1)),
           entries[Len(entries)].carbon_kg)

\* C5: aggregator sum invariant.  The returned total is the sum of the
\* returned per-ingredient values rounded to two decimals (a NaN entry makes
\* both sides NaN), and the empty list returns the total 0 with no entries
\* and raises nothing.
C5_AggregatorSum ==
  /\ pc = "done" =>
       result.estimated_carbon_kg = Round2(SumOfCarbon(result.ingredients))
  /\ ingredients = <<>> =>
       /\ pc # "thrown"
       /\ pc = "done" =>
            result.estimated_carbon_kg = 0 /\ result.ingredients = <<>>

C5_Witness ==
  /\ pc = "done"
  /\ Len(result.ingredients) = 2
  /\ result.ingredients[1].carbon_kg = 69000
  /\ result.ingredients[2].carbon_kg = 40000
  /\ result.estimated_carbon_kg = 109000

\* C6: every returned carbon_kg is one of the literal values of the table.
C6_CarbonIsTableValue ==
  (pc = "done" /\ AllNamesAreStrings) =>
    \A i \in 1..Len(result.ingredients) :
      result.ingredients[i].carbon_kg \in TableValues

\* The factor the claim gives for a raw confidence: the confidence itself
\* when it is supplied, 0.8 when it is absent.
SuppliedOrDefault(c) == IF c = Undefined THEN DefaultConfidence ELSE c

\* C7: confidence blending.  Every resolved confidence is the matcher's
\* confidence times the raw confidence when one is supplied (0 included),
\* times 0.8 when none is, rounded to two decimals.
C7_ConfidenceBlending ==
  \A i \in 1..Len(processedIngredients) :
    processedIngredients[i].confidence =
      Round2(Mul(matchTrace[i].confidence,
                 SuppliedOrDefault(ingredients[i].confidence)))

ExoticName == <<"e", "x", "o", "t", "i", "c", "_", "u", "n", "k", "n", "o", "w", "n", "_", "i", "n", "g", "r", "e", "d", "i", "e", "n", "t", "_", "x", "y", "z">>

\* C8: unknown-ingredient fallback.  The single ingredient
\* exotic_unknown_ingredient_xyz with confidence 0.5 is resolved by the
\* fallback rule: the table's unknown value, confidence 0.3 * 0.5 = 0.15.
C8_UnknownFallback ==
  (pc = "done" /\ ingredients = <<[name |-> ExoticName, confidence |-> 5000]>>) =>
    /\ result.ingredients[1].carbon_kg = Lookup(Db, UnknownKey)
    /\ matchTrace[1] = [key |-> UnknownKey, confidence |-> FallbackConfidence]
    /\ result.ingredients[1].confidence = 1500

\* C9: name-variation invariance.  Two names that differ only in letter
\* case, in leading, trailing or repeated whitespace, in stripped
\* punctuation or in added standalone qualifier words get the same key, the
\* same match confidence and the same carbon_kg; CHICKEN  BREAST gets the
\* chicken value and fresh organic rice the rice value.
C9_NameVariationInvariance ==
  pc = "done" =>
    /\ (Len(ingredients) = 2 /\
        ingredients[2].name \in Variants(ingredients[1].name)) =>
         /\ matchTrace[1] = matchTrace[2]
         /\ result.ingredients[1].carbon_kg = result.ingredients[2].carbon_kg
    /\ \A i \in 1..Len(ingredients) :
         /\ ingredients[i].name = <<"C", "H", "I", "C", "K", "E", "N", " ", " ", "B", "R", "E", "A", "S", "T", " ", " ", " ">> =>
              result.ingredients[i].carbon_kg = 69000
         /\ ingredients[i].name = <<"f", "r", "e", "s", "h", " ", "o", "r", "g", "a", "n", "i", "c", " ", "r", "i", "c", "e">> =>
              result.ingredients[i].carbon_kg = 40000

C9_Witness ==
  /\ pc = "done"
  /\ Len(ingredients) = 2
  /\ ingredients[1].name = <<"o", "l", "i", "v", "e", " ", "o", "i", "l">>
  /\ ingredients[2].name = <<"o", "l", "i", "v", "e", " ", "f", "r", "e", "s", "h", " ", "o", "i", "l">>
  /\ matchTrace[2].key = <<"o", "l", "i", "v", "e", " ", "o", "i", "l">>
  /\ matchTrace[2].confidence = ExactConfidence

\* C10: calculateCarbonFootprint never raises on string names.  It runs to
\* its return, and the estimate has one entry per raw ingredient, in the
\* input order, carrying the original name.
C10_NeverRaises ==
  AllNamesAreStrings =>
    /\ pc # "thrown"
    /\ pc \in {"map", "match", "blend", "done"}
    /\ Len(processedIngredients) <= Len(ingredients)
    /\ pc = "done" =>
         /\ result.dish = dishName
         /\ Len(result.ingredients) = Len(ingredients)
         /\ \A i \in 1..Len(ingredients) :
              result.ingredients[i].name = ingredients[i].name

C10_Witness ==
  /\ pc = "done"
  /\ Len(ingredients) = 2
  /\ ingredients[1].name = ingredients[2].name
  /\ ingredients[1].name # normalizeIngredientName(ingredients[1].name)
  /\ Len(result.ingredients) = 2

\* ------------------------------------------------------------------------
\* middleware/validation: textEstimationSchema
\* ------------------------------------------------------------------------

\* Characters outside ASCII are written as one element naming the code
\* point.  Samples of the four ranges the allow-list admits, and two
\* characters outside them.
ExtendedLatin == {"U+00E9", "U+017F"}
Cjk == {"U+4E2D"}
Arabic == {"U+0627"}
Devanagari == {"U+092D"}
OtherUnicode == {"U+0416", "U+2603"}

\* The class of the pattern rule: a-z A-Z 0-9 \s - . , ! ? ' " ( ) and the
\* ranges 00C0-017F, 4E00-9FFF, 0600-06FF, 0900-097F.
AllowedChars ==
  LowerLetters \cup UpperLetters \cup Digits \cup Whitespace \cup
  {"-", ".", ",", "!", "?", "'", "\"", "(", ")"} \cup
  ExtendedLatin \cup Cjk \cup Arabic \cup Devanagari

\* The characters the regular expression `.` does not match.
LineTerminators == {"\n"}

\* Joi's string().min(1) and max(200).
MinDishLength == 1
MaxDishLength == 200

\* The quantifier of /(.)\1{50,}/: a character followed by 50 or more
\* repetitions of itself.
MinRepetitions == 50

\* The positions (1-based) at which t occurs in s.
Occurrences(s, t) ==
  {i \in 1..(Len(s) - Len(t) + 1) : SubSeq(s, i, i + Len(t) - 1) = t}

\* /a.*b/ on s: a, then any characters but line terminators, then b.
matchesDotStar(s, a, b) ==
  \E i \in Occurrences(s, a) : \E j \in Occurrences(s, b) :
    /\ j >= i + Len(a)
    /\ \A k \in (i + Len(a))..(j - 1) : s[k] \notin LineTerminators

\* /a\s*\(/ on s: a, then any whitespace, then an opening parenthesis.
matchesCall(s, a) ==
  \E i \in Occurrences(s, a) : \E j \in Occurrences(s, <<"(">>) :
    /\ j >= i + Len(a)
    /\ \A k \in (i + Len(a))..(j - 1) : s[k] \in Whitespace

\* The literal patterns of suspiciousPatterns.  The array's text
\* /\.\.\\\/g, \/etc\/passwd/i is one pattern: the escaped slash keeps the
\* literal open, so it matches the text ..\/g, /etc/passwd and nothing else.
LiteralPatterns ==
  { <<"<", "s", "c", "r", "i", "p", "t">>,
    <<"j", "a", "v", "a", "s", "c", "r", "i", "p", "t", ":">>,
    <<"o", "n", "l", "o", "a", "d", "=">>,
    <<"o", "n", "e", "r", "r", "o", "r", "=">>,
    <<".", ".", "/">>,
    <<".", ".", "\\", "/", "g", ",", " ", "/", "e", "t", "c", "/", "p", "a", "s", "s", "w", "d">>,
    <<"_", "_", "p", "r", "o", "t", "o", "_", "_">>,
    <<"p", "r", "o", "t", "o", "t", "y", "p", "e">>,
    <<"c", "o", "n", "s", "t", "r", "u", "c", "t", "o", "r">> }

\* The patterns of the form /A.*B/i, as pairs <<A, B>>.
DotStarPatterns ==
  { <<<<"s", "e", "l", "e", "c", "t">>, <<"f", "r", "o", "m">>>>,
    <<<<"u", "n", "i", "o", "n">>, <<"s", "e", "l", "e", "c", "t">>>>,
    <<<<"d", "r", "o", "p">>, <<"t", "a", "b", "l", "e">>>>,
    <<<<"i", "n", "s", "e", "r", "t">>, <<"i", "n", "t", "o">>>>,
    <<<<"d", "e", "l", "e", "t", "e">>, <<"f", "r", "o", "m">>>>,
    <<<<"u", "p", "d", "a", "t", "e">>, <<"s", "e", "t">>>> }

\* The patterns of the form /A\s*\(/i.
CallPatterns ==
  { <<"e", "x", "e", "c">>,
    <<"e", "v", "a", "l">>,
    <<"f", "u", "n", "c", "t", "i", "o", "n">> }

\* suspiciousPatterns.some(pattern => pattern.test(value)); the patterns
\* are matched without regard to letter case.
isSuspicious(value) ==
  LET v == toLowerCase(value)
  IN  \/ \E t \in LiteralPatterns : includes(v, t)
      \/ \E ab \in DotStarPatterns : matchesDotStar(v, ab[1], ab[2])
      \/ \E a \in CallPatterns : matchesCall(v, a)

\* /(.)\1{50,}/.test(value)
hasRepeatedChars(value) ==
  \E i \in 1..(Len(value) - MinRepetitions) :
    /\ value[i] \notin LineTerminators
    /\ \A k \in 1..MinRepetitions : value[i + k] = value[i]

\* The messages of the schema.
MsgEmpty == "Dish name cannot be empty"
MsgMin == "Dish name must be at least 1 character long"
MsgMax == "Dish name cannot exceed 200 characters"
MsgPattern == "Dish name contains invalid characters"
MsgMalicious == "Dish name contains potentially malicious content"
MsgRepeated == "Dish name contains excessive repeated characters"
MsgRequired == "Dish name is required"
MsgStringBase == "\"dish\" must be a string"
MsgObjectBase == "\"value\" must be of type object"
MsgUnknownKey == "is not allowed"

\* The custom rule of the dish schema: the message of the error it returns,
\* or "" when it returns the value.
customRule(value) ==
  IF Len(trim(value)) = 0 THEN MsgEmpty
  ELSE IF isSuspicious(value) THEN MsgMalicious
  ELSE IF hasRepeatedChars(value) THEN MsgRepeated
  ELSE ""

\* The rules of the dish with the custom rule ahead of the length and the
\* pattern rules.
dishRulesCustomFirst(value) ==
  IF value = <<>> THEN MsgEmpty
  ELSE IF customRule(value) # "" THEN customRule(value)
  ELSE IF Len(value) < MinDishLength THEN MsgMin
  ELSE IF Len(value) > MaxDishLength THEN MsgMax
  ELSE IF \E i \in 1..Len(value) : value[i] \notin AllowedChars THEN MsgPattern
  ELSE ""

\* Joi.string().min(1).max(200).pattern(...).custom(...) on a string: the
\* empty string is refused before any rule, then the rules run in the order
\* they were declared and the first error ends the validation.
dishRules(value) ==
  IF value = <<>> THEN MsgEmpty
  ELSE IF Len(value) < MinDishLength THEN MsgMin
  ELSE IF Len(value) > MaxDishLength THEN MsgMax
  ELSE IF \E i \in 1..Len(value) : value[i] \notin AllowedChars THEN MsgPattern
  ELSE customRule(value)

DishKey == <<"d", "i", "s", "h">>

\* The properties of body b whose key is k (at most one).
PropsNamed(b, k) == SelectSeq(b.props, LAMBDA q : q.key = k)

HasOwn(b, k) == Len(PropsNamed(b, k)) > 0

\* b[k] for an own property.
Prop(b, k) == Head(PropsNamed(b, k))

\* The own keys of b that the schema does not know.
UnknownProps(b) == SelectSeq(b.props, LAMBDA q : q.key # DishKey)

NoJoiError == [field |-> <<>>, message |-> ""]

\* textEstimationSchema without unknown(false): keys the schema does not
\* know are let through.
schemaValidateAllowUnknown(b) ==
  IF b.kind = "array" THEN [field |-> <<>>, message |-> MsgObjectBase]
  ELSE IF ~HasOwn(b, DishKey) \/ Prop(b, DishKey).type = "undefined"
       THEN [field |-> DishKey, message |-> MsgRequired]
  ELSE IF Prop(b, DishKey).type # "string"
       THEN [field |-> DishKey, message |-> MsgStringBase]
  ELSE IF dishRules(Prop(b, DishKey).str) # ""
       THEN [field |-> DishKey, message |-> dishRules(Prop(b, DishKey).str)]
  ELSE NoJoiError

\* textEstimationSchema.validate(body): the first error, or NoJoiError.
\* The object type is checked first, then the key of the schema, then the
\* keys the schema does not know (unknown(false)).
schemaValidate(b) ==
  IF b.kind = "array" THEN [field |-> <<>>, message |-> MsgObjectBase]
  ELSE IF ~HasOwn(b, DishKey) \/ Prop(b, DishKey).type = "undefined"
       THEN [field |-> DishKey, message |-> MsgRequired]
  ELSE IF Prop(b, DishKey).type # "string"
       THEN [field |-> DishKey, message |-> MsgStringBase]
  ELSE IF dishRules(Prop(b, DishKey).str) # ""
       THEN [field |-> DishKey, message |-> dishRules(Prop(b, DishKey).str)]
  ELSE IF Len(UnknownProps(b)) > 0
       THEN [field |-> Head(UnknownProps(b)).key, message |-> MsgUnknownKey]
  ELSE NoJoiError

\* ------------------------------------------------------------------------
\* utils/helpers: sanitizeTextInput
\* ------------------------------------------------------------------------

\* s.slice(0, n)
slice(s, n) == SubSeq(s, 1, IF Len(s) < n THEN Len(s) ELSE n)

\* The length sanitizeTextInput cuts to.
SanitizedLength == 200

\* sanitizeTextInput without the trim.
sanitizeWithoutTrim(input) ==
  slice(SelectSeq(input, LAMBDA c : c \notin {"<", ">"}), SanitizedLength)

sanitizeTextInput(input) ==
  slice(SelectSeq(trim(input), LAMBDA c : c \notin {"<", ">"}), SanitizedLength)

\* ------------------------------------------------------------------------
\* models: AppError, ValidationError; utils/constants: HTTP_STATUS
\* ------------------------------------------------------------------------

BAD_REQUEST == 400
INTERNAL_SERVER_ERROR == 500

\* The classes that extend AppError, and AppError itself.
AppErrorClasses == {"AppError", "ValidationError", "AIServiceError"}

\* new ValidationError(message, [{field, message: detail}]); the constructor
\* of AppError sets the name of every instance to 'AppError'.
ValidationError(message, field, detail) ==
  [class |-> "ValidationError", name |-> "AppError",
   statusCode |-> BAD_REQUEST, code |-> "VALIDATION_ERROR",
   message |-> message, field |-> field, detail |-> detail]

\* The TypeError the engine throws when a value that is not a function is
\* called.
TypeError(message) ==
  [class |-> "TypeError", name |-> "TypeError", statusCode |-> 0,
   code |-> "", message |-> message, field |-> <<>>, detail |-> ""]

\* ------------------------------------------------------------------------
\* middleware/errorHandler: errorHandler
\* ------------------------------------------------------------------------

\* errorHandler without the branch for errors named MulterError.
errorHandlerWithoutMulter(error) ==
  IF error.class \in AppErrorClasses
  THEN [status |-> error.statusCode, code |-> error.code,
        message |-> error.message, field |-> error.field,
        detail |-> error.detail]
  ELSE IF error.name = "ValidationError"
  THEN [status |-> BAD_REQUEST, code |-> "VALIDATION_ERROR",
        message |-> "Validation failed", field |-> <<>>,
        detail |-> error.message]
  ELSE [status |-> INTERNAL_SERVER_ERROR, code |-> "INTERNAL_ERROR",
        message |-> "An unexpected error occurred", field |-> <<>>,
        detail |-> ""]

\* The status, code, message and details of the response for an error.
errorHandler(error) ==
  IF error.class \in AppErrorClasses
  THEN [status |-> error.statusCode, code |-> error.code,
        message |-> error.message, field |-> error.field,
        detail |-> error.detail]
  ELSE IF error.name = "ValidationError"
  THEN [status |-> BAD_REQUEST, code |-> "VALIDATION_ERROR",
        message |-> "Validation failed", field |-> <<>>,
        detail |-> error.message]
  ELSE IF error.name = "MulterError"
  THEN [status |-> BAD_REQUEST, code |-> "FILE_UPLOAD_ERROR",
        message |-> "File upload error", field |-> <<>>,
        detail |-> error.message]
  ELSE [status |-> INTERNAL_SERVER_ERROR, code |-> "INTERNAL_ERROR",
        message |-> "An unexpected error occurred", field |-> <<>>,
        detail |-> ""]

\* ------------------------------------------------------------------------
\* middleware/validation: validateTextEstimation
\* ------------------------------------------------------------------------

\* The longest JSON text of a body, and the most keys, that are let through.
MaxBodyLength == 10000
MaxBodyKeys == 10

\* The length of JSON.stringify(s) for a string s: the quotes, and two
\* characters for each character that is escaped.
jsonStringLength(s) ==
  2 + Len(s) +
  Cardinality({i \in 1..Len(s) : s[i] \in {"\"", "\\", "\n", "\t"}})

\* The length of JSON.stringify(b) for an object or an array: an object
\* leaves out the properties that are undefined, an array writes them as
\* null.
jsonLength(b) ==
  LET ps == IF b.kind = "object"
            THEN SelectSeq(b.props, LAMBDA q : q.type # "undefined")
            ELSE b.props
      item(q) ==
        (IF b.kind = "object" THEN jsonStringLength(q.key) + 1 ELSE 0) +
        (IF q.type = "string" THEN jsonStringLength(q.str) ELSE q.json)
      f[i \in 0..Len(ps)] == IF i = 0 THEN 0 ELSE f[i - 1] + item(ps[i])
  IN  2 + f[Len(ps)] + (IF Len(ps) > 1 THEN Len(ps) - 1 ELSE 0)

\* req.body.dish?.substring(0, 50) throws: dish is neither null nor
\* undefined and has no method substring.
substringThrows(b) ==
  /\ b.kind = "object"
  /\ HasOwn(b, DishKey)
  /\ Prop(b, DishKey).type \notin {"undefined", "null", "string"}

\* The error validateTextEstimation hands to next, NoError when it accepts.
validateTextEstimation(b) ==
  IF b.kind \notin {"object", "array"}
  THEN ValidationError("Request body must be a valid JSON object", <<>>, "")
  ELSE IF jsonLength(b) > MaxBodyLength
  THEN ValidationError("Request body is too large", <<>>, "")
  ELSE IF Len(b.props) > MaxBodyKeys
  THEN ValidationError("Request body has too many properties", <<>>, "")
  ELSE IF schemaValidate(b) # NoJoiError
  THEN IF substringThrows(b)
       THEN TypeError("req.body.dish?.substring is not a function")
       ELSE ValidationError("Invalid request data", schemaValidate(b).field,
                            schemaValidate(b).message)
  ELSE NoError

\* { dish: value }
DishBody(value) ==
  [kind |-> "object",
   props |-> <<[key |-> DishKey, type |-> "string", str |-> value,
                json |-> 0]>>]

\* ------------------------------------------------------------------------
\* Inputs of validateTextEstimation
\* ------------------------------------------------------------------------

\* c repeated n times.
Repeat(c, n) == [i \in 1..n |-> c]

\* The pair ab repeated n times.
RepeatPair(a, b, n) == [i \in 1..(2 * n) |-> IF i % 2 = 1 THEN a ELSE b]

\* Dish names a client would send.
OrdinaryDishes ==
  { <<"C", "h", "i", "c", "k", "e", "n", " ", "B", "i", "r", "y", "a", "n", "i">>,
    <<"M", "a", "c", " ", "'", "n", "'", " ", "C", "h", "e", "e", "s", "e", " ", "(", "l", "a", "r", "g", "e", ")", "!">>,
    <<"P", "a", "d", " ", "T", "h", "a", "i", ",", " ", "m", "i", "l", "d", "?">>,
    <<"r", "i", "c", "e">>,
    <<"7", "-", "U", "p", " ", "\"", "f", "l", "o", "a", "t", "\"">> } \cup
  { <<"C", "r", "U+00E9", "m", "e">>, <<"U+4E2D", "U+4E2D">>,
    <<"U+0627">>, <<"U+092D", " ", "d", "a", "l">> }

\* Dish names that are empty, blank, or padded with whitespace.
BlankDishes ==
  { <<>>,
    <<" ">>,
    <<" ", " ", " ">>,
    <<"\t", "\n">>,
    <<" ", "\n", " ", "\t", " ">> }

PaddedDishes ==
  { <<" ", "C", "h", "i", "c", "k", "e", "n", " ", "B", "i", "r", "y", "a", "n", "i", " ">>,
    <<"\t", "r", "i", "c", "e", "\n">>,
    <<" ", " ", "d", "a", "l">> }

\* Dish names with characters outside the allow-list.
DisallowedDishes ==
  { <<"F", "i", "s", "h", " ", "&", " ", "C", "h", "i", "p", "s">>,
    <<"a", "<", "b">>,
    <<"<", ">">>,
    <<"r", "i", "c", "e", ";">>,
    <<"5", "0", "%", " ", "r", "i", "c", "e">>,
    <<"a", "_", "b">>,
    <<"a", "/", "b">>,
    <<"a", "\\", "b">>,
    <<"x", "=", "y">> } \cup
  { <<"U+0416">>, <<"r", "U+2603">> }

\* Script, SQL, code, path and prototype payloads.
PayloadDishes ==
  { <<"<", "s", "c", "r", "i", "p", "t", ">", "a", "l", "e", "r", "t", "(", "1", ")", "<", "/", "s", "c", "r", "i", "p", "t", ">">>,
    <<"'", ";", " ", "D", "R", "O", "P", " ", "T", "A", "B", "L", "E", " ", "u", "s", "e", "r", "s", ";", " ", "-", "-">>,
    <<"<", "S", "C", "R", "I", "P", "T", ">">>,
    <<"j", "a", "v", "a", "s", "c", "r", "i", "p", "t", ":", "a", "l", "e", "r", "t", "(", "1", ")">>,
    <<"o", "n", "l", "o", "a", "d", "=", "x">>,
    <<"o", "n", "e", "r", "r", "o", "r", "=", "x">>,
    <<"S", "E", "L", "E", "C", "T", " ", "*", " ", "F", "R", "O", "M", " ", "u", "s", "e", "r", "s">>,
    <<".", ".", "/", ".", ".", "/", ".", ".", "/", "e", "t", "c", "/", "p", "a", "s", "s", "w", "d">>,
    <<".", ".", "\\", "w", "i", "n", "d", "o", "w", "s">>,
    <<"_", "_", "p", "r", "o", "t", "o", "_", "_">>,
    <<"_", "_", "p", "r", "o", "t", "o", "_", "_", ".", "p", "o", "l", "l", "u", "t", "e", "d", " ", "=", " ", "t", "r", "u", "e">>,
    <<"s", "e", "l", "e", "c", "t", " ", "n", "a", "m", "e", " ", "f", "r", "o", "m", " ", "u", "s", "e", "r", "s">>,
    <<"S", "e", "l", "e", "c", "t", " ", "N", "a", "m", "e", " ", "F", "r", "o", "m", " ", "U", "s", "e", "r", "s">>,
    <<"s", "e", "l", "e", "c", "t", "i", "o", "n", " ", "f", "r", "o", "m", " ", "t", "h", "e", " ", "c", "h", "e", "f">>,
    <<"u", "n", "i", "o", "n", " ", "s", "e", "l", "e", "c", "t">>,
    <<"d", "r", "o", "p", " ", "t", "a", "b", "l", "e">>,
    <<"D", "r", "o", "p", " ", " ", "T", "a", "b", "l", "e", " ", "u", "s", "e", "r", "s">>,
    <<"r", "a", "i", "n", "d", "r", "o", "p", " ", "v", "e", "g", "e", "t", "a", "b", "l", "e", "s">>,
    <<"i", "n", "s", "e", "r", "t", " ", "i", "n", "t", "o">>,
    <<"d", "e", "l", "e", "t", "e", " ", "f", "r", "o", "m">>,
    <<"u", "p", "d", "a", "t", "e", " ", "x", " ", "s", "e", "t">>,
    <<"u", "p", "d", "a", "t", "e", "d", " ", "s", "u", "n", "s", "e", "t", " ", "s", "a", "l", "a", "d">>,
    <<"e", "x", "e", "c", "(", "1", ")">>,
    <<"e", "v", "a", "l", " ", "(", "x", ")">>,
    <<"E", "V", "A", "L", "(", "x", ")">>,
    <<"f", "u", "n", "c", "t", "i", "o", "n", " ", "(", ")">>,
    <<"m", "e", "d", "i", "e", "v", "a", "l", " ", "(", "o", "l", "d", ")", " ", "s", "t", "e", "w">>,
    <<"p", "r", "o", "t", "o", "t", "y", "p", "e">>,
    <<"P", "r", "o", "t", "o", "t", "y", "p", "e", " ", "s", "o", "u", "p">>,
    <<"c", "o", "n", "s", "t", "r", "u", "c", "t", "o", "r">>,
    <<"C", "o", "n", "s", "t", "r", "u", "c", "t", "o", "r", " ", "s", "a", "l", "a", "d">>,
    <<"d", "e", "c", "o", "n", "s", "t", "r", "u", "c", "t", "o", "r", " ", "p", "i", "e">> }

\* Payloads with a line break between the two keywords.
MultilineDishes ==
  { <<"s", "e", "l", "e", "c", "t", " ", "n", "a", "m", "e", "\n", "f", "r", "o", "m", " ", "u", "s", "e", "r", "s">>,
    <<"u", "n", "i", "o", "n", "\n", "s", "e", "l", "e", "c", "t">>,
    <<"d", "r", "o", "p", "\n", "t", "a", "b", "l", "e">>,
    <<"i", "n", "s", "e", "r", "t", "\n", "i", "n", "t", "o">>,
    <<"d", "e", "l", "e", "t", "e", "\n", "f", "r", "o", "m">>,
    <<"u", "p", "d", "a", "t", "e", " ", "x", "\n", "s", "e", "t", " ", "y">>,
    <<"e", "v", "a", "l", "\n", "(", "x", ")">>,
    <<"f", "r", "o", "m", "\n", "s", "e", "l", "e", "c", "t">> }

\* Dish names at the length bounds.
LongDishes ==
  { RepeatPair("a", "b", 100), RepeatPair("a", "b", 101) \o <<"a">>,
    RepeatPair("a", "b", 100) \o <<"c">>,
    <<" ">> \o RepeatPair("a", "b", 100) \o <<" ">>,
    <<" ">> \o RepeatPair("a", "b", 99) \o <<" ">>,
    <<" ">> \o RepeatPair("a", "b", 100),
    RepeatPair("a", "b", 99) \o <<"\n", "\n">>,
    Repeat(" ", 201), Repeat(" ", 200),
    <<" ">> \o RepeatPair("a", "b", 101) \o <<" ">> }

\* Dish names with a run of one character.
RepeatedDishes ==
  { Repeat("A", 50), Repeat("A", 51), Repeat("A", 100), Repeat("A", 200),
    Repeat("A", 201),
    <<"a">> \o Repeat("b", 50) \o <<"c">>,
    <<"a">> \o Repeat("b", 51) \o <<"c">>,
    <<"a">> \o Repeat(" ", 50) \o <<"b">>,
    <<"a">> \o Repeat(" ", 51) \o <<"b">>,
    <<"a">> \o Repeat("\t", 51) \o <<"b">>,
    <<"a">> \o Repeat("\n", 50) \o <<"b">>,
    <<"a">> \o Repeat("\n", 51) \o <<"b">>,
    <<"a">> \o Repeat("\n", 100) \o <<"b">>,
    <<"a">> \o Repeat("U+00E9", 51),
    Repeat("-", 51), Repeat("7", 60) }

DishStrings ==
  OrdinaryDishes \cup BlankDishes \cup PaddedDishes \cup DisallowedDishes
  \cup PayloadDishes \cup MultilineDishes \cup LongDishes
  \cup RepeatedDishes

\* A property of a body whose value is a string.
StringProp(key, value) ==
  [key |-> key, type |-> "string", str |-> value, json |-> 0]

\* A property whose value is not a string, with the length of its JSON text.
OtherProp(key, type, json) ==
  [key |-> key, type |-> type, str |-> <<>>, json |-> json]

\* Values that are not strings: 123, true, null, [], {}, undefined.
OtherValues ==
  { <<"number", 3>>, <<"boolean", 4>>, <<"null", 4>>, <<"array", 2>>,
    <<"object", 2>>, <<"undefined", 0>> }

ExtraKey == <<"e", "x", "t", "r", "a">>

\* Bodies that are not objects: undefined, null, a string, a number, a
\* boolean.
ScalarBodies ==
  { [kind |-> k, props |-> <<>>] :
      k \in {"undefined", "null", "string", "number", "boolean"} }

\* n properties kx, kxx, ... with the value 1.
FillerProps(n) ==
  [i \in 1..n |-> OtherProp(<<"k">> \o Repeat("x", i), "number", 1)]

\* Arrays: [], ["rice"], and one of 11 elements.
ArrayBodies ==
  { [kind |-> "array", props |-> <<>>],
    [kind |-> "array", props |-> <<StringProp(<<"0">>, <<"r", "i", "c", "e">>)>>],
    [kind |-> "array", props |-> FillerProps(MaxBodyKeys + 1)] }

\* Objects whose only key is dish.
DishBodies ==
  { DishBody(v) : v \in DishStrings } \cup
  { [kind |-> "object", props |-> <<OtherProp(DishKey, t[1], t[2])>>] :
      t \in OtherValues }

\* Dish names sent along with other keys.
DishesWithExtras ==
  { <<"C", "h", "i", "c", "k", "e", "n", " ", "B", "i", "r", "y", "a", "n", "i">>,
    <<>>,
    <<" ", "r", "i", "c", "e", " ">>,
    <<"<", "s", "c", "r", "i", "p", "t", ">">>,
    <<"d", "r", "o", "p", " ", "t", "a", "b", "l", "e">> } \cup
  { Repeat("A", 100) }

\* Objects with keys other than dish.
ExtraKeyBodies ==
  { [kind |-> "object", props |-> <<>>],
    [kind |-> "object", props |-> <<StringProp(ExtraKey, <<"x">>)>>],
    [kind |-> "object", props |-> <<OtherProp(ExtraKey, "undefined", 0)>>] }
  \cup
  { [kind |-> "object",
     props |-> <<StringProp(DishKey, v), OtherProp(ExtraKey, t[1], t[2])>>] :
      v \in DishesWithExtras, t \in OtherValues }
  \cup
  { [kind |-> "object",
     props |-> <<StringProp(ExtraKey, <<"x">>), StringProp(DishKey, v)>>] :
      v \in DishesWithExtras }
  \cup
  { [kind |-> "object",
     props |-> <<OtherProp(DishKey, t[1], t[2]), StringProp(ExtraKey, <<"x">>)>>] :
      t \in OtherValues }
  \cup
  { [kind |-> "object",
     props |-> <<StringProp(DishKey, v)>> \o FillerProps(n)] :
      v \in DishesWithExtras, n \in {MaxBodyKeys - 1, MaxBodyKeys} }
  \cup
  { [kind |-> "object",
     props |-> <<OtherProp(DishKey, "number", 3)>> \o FillerProps(MaxBodyKeys)] }

\* {"dish":"rice","extra":[...]} with an array whose JSON text makes the
\* text of the body exactly MaxBodyLength long, and one character longer.
LargeBodies ==
  { [kind |-> "object",
     props |-> <<StringProp(DishKey, <<"r", "i", "c", "e">>),
                 OtherProp(ExtraKey, "array", n)>>] :
      n \in {MaxBodyLength - 24, MaxBodyLength - 23} }

Bodies ==
  ScalarBodies \cup ArrayBodies \cup DishBodies \cup ExtraKeyBodies
  \cup LargeBodies

\* ------------------------------------------------------------------------
\* POST /estimate: validateTextEstimation, then errorHandler
\* ------------------------------------------------------------------------

InitText ==
  /\ submitted \in Bodies
  /\ body = submitted
  /\ textPc = "validate"
  /\ textError = NoError
  /\ textResponse = NoResponse
  /\ textNextCalls = 0
  /\ CarbonIdle
  /\ ImageIdle
  /\ ServerIdle
  /\ AiIdle

\* The handler with a catch block that also gets what next() throws, with a
\* next that throws: next() and then next(err) on acceptance.
ValidateTextEstimationNextTwice ==
  /\ textPc = "validate"
  /\ textError' = validateTextEstimation(body)
  /\ IF textError' = NoError
     THEN /\ body' = DishBody(sanitizeTextInput(Prop(body, DishKey).str))
          /\ textPc' = "accepted"
          /\ textNextCalls' = textNextCalls + 2
     ELSE /\ body' = body
          /\ textPc' = "error"
          /\ textNextCalls' = textNextCalls + 1
  /\ UNCHANGED <<submitted, textResponse, carbonVars, imageVars, serverVars,
                 aiVars>>

\* validateTextEstimation(req, res, next): next(err) on a rejection or a
\* throw, and req.body = { dish: sanitizeTextInput(value.dish) }; next() on
\* acceptance.
ValidateTextEstimation ==
  /\ textPc = "validate"
  /\ textError' = validateTextEstimation(body)
  /\ IF textError' = NoError
     THEN /\ body' = DishBody(sanitizeTextInput(Prop(body, DishKey).str))
          /\ textPc' = "accepted"
     ELSE /\ body' = body
          /\ textPc' = "error"
  /\ textNextCalls' = textNextCalls + 1
  /\ UNCHANGED <<submitted, textResponse, carbonVars, imageVars, serverVars,
                 aiVars>>

\* errorHandler(error, req, res, next): res.status(...).json(...)
ErrorHandler ==
  /\ textPc = "error"
  /\ textResponse' = errorHandler(textError)
  /\ textPc' = "responded"
  /\ UNCHANGED <<submitted, body, textError, textNextCalls, carbonVars,
                 imageVars, serverVars, aiVars>>

NextText == ValidateTextEstimation \/ ErrorHandler

SpecText == InitText /\ [][NextText]_vars

\* ------------------------------------------------------------------------
\* Properties of validateTextEstimation
\* ------------------------------------------------------------------------

\* The validator has run on the submitted body.
TextValidated == textPc \in {"accepted", "error", "responded"}

TextAccepted == textPc = "accepted"

TextRejected == textPc \in {"error", "responded"}

\* The submitted body is an object whose dish is a string.
HasStringDish(b) ==
  /\ b.kind = "object"
  /\ HasOwn(b, DishKey)
  /\ Prop(b, DishKey).type = "string"

\* The submitted body is { dish: <string> } and nothing else.
OnlyStringDish(b) == HasStringDish(b) /\ Len(b.props) = 1

\* The dish of the submitted body.
SubmittedDish == Prop(submitted, DishKey).str

\* The two payloads the scenarios name.
ScriptPayload == <<"<", "s", "c", "r", "i", "p", "t", ">", "a", "l", "e", "r", "t", "(", "1", ")", "<", "/", "s", "c", "r", "i", "p", "t", ">">>
SqlPayload == <<"'", ";", " ", "D", "R", "O", "P", " ", "T", "A", "B", "L", "E", " ", "u", "s", "e", "r", "s", ";", " ", "-", "-">>

\* The messages of the validator that contain the word 'malicious'.
MaliciousMessages == {MsgMalicious}

\* C11: a body { dish: payload } with the script payload or the SQL payload
\* is rejected with the detail 'Dish name contains potentially malicious
\* content', and the message of the response contains 'malicious'.
C11_PayloadGetsMaliciousReason ==
  (/\ OnlyStringDish(submitted)
   /\ SubmittedDish \in {ScriptPayload, SqlPayload}
   /\ textPc = "responded")
  => /\ textError.detail = MsgMalicious
     /\ textResponse.message \in MaliciousMessages

\* C12: whatever the body, the validator either accepts or hands a
\* ValidationError to next, and the response to a rejection has status 400
\* and code VALIDATION_ERROR.
C12_AcceptOrValidationError ==
  /\ TextRejected => textError.class = "ValidationError"
  /\ textPc = "responded" =>
       /\ textResponse.status = BAD_REQUEST
       /\ textResponse.code = "VALIDATION_ERROR"

\* The validator refused the dish for its length.
RejectedForLength ==
  TextRejected /\ textError.detail \in {MsgEmpty, MsgMin, MsgMax}

\* C13: a body { dish: s } passes the length check exactly when the trimmed
\* length of s is between 1 and 200.
C13_LengthBoundOnTrimmed ==
  (TextValidated /\ OnlyStringDish(submitted)) =>
    (~RejectedForLength <=>
       Len(trim(SubmittedDish)) \in MinDishLength..MaxDishLength)

\* The submitted body has a top-level key other than dish.
HasOtherKey(b) ==
  /\ b.kind \in {"object", "array"}
  /\ \E i \in 1..Len(b.props) : b.props[i].key # DishKey

\* C14: a body with a top-level key other than dish is never accepted, and
\* neither is a body with more than 10 top-level keys.
C14_StrictKeyPolicy ==
  (TextValidated /\
   (HasOtherKey(submitted) \/ Len(submitted.props) > MaxBodyKeys))
  => TextRejected

\* A body with a valid dish and one more key was refused for that key.
C14_Witness ==
  /\ TextRejected
  /\ HasStringDish(submitted)
  /\ dishRules(SubmittedDish) = ""
  /\ Len(submitted.props) = 2
  /\ textError.detail = MsgUnknownKey

\* s holds n or more consecutive occurrences of one character.
HasRun(s, n) ==
  \E i \in 1..(Len(s) - n + 1) : \A k \in 1..(n - 1) : s[i + k] = s[i]

\* C15: no accepted dish holds a run of 51 or more occurrences of one
\* character, a dish that reaches the rule with such a run is rejected with
\* the repeated-characters reason, and that reason is never given to a dish
\* whose longest run is 50 or shorter.
C15_NoLongRunAccepted ==
  (TextValidated /\ OnlyStringDish(submitted)) =>
    /\ TextAccepted => ~HasRun(SubmittedDish, 51)
    /\ (TextRejected /\ textError.detail = MsgRepeated)
         => HasRun(SubmittedDish, 51)

\* The signatures that are fixed texts, in lower case.
LiteralSignatures ==
  { <<"<", "s", "c", "r", "i", "p", "t">>,
    <<"j", "a", "v", "a", "s", "c", "r", "i", "p", "t", ":">>,
    <<"o", "n", "l", "o", "a", "d", "=">>,
    <<"o", "n", "e", "r", "r", "o", "r", "=">>,
    <<"d", "r", "o", "p", " ", "t", "a", "b", "l", "e">>,
    <<"i", "n", "s", "e", "r", "t", " ", "i", "n", "t", "o">>,
    <<"d", "e", "l", "e", "t", "e", " ", "f", "r", "o", "m">>,
    <<"e", "x", "e", "c", "(">>,
    <<"e", "v", "a", "l", "(">>,
    <<"f", "u", "n", "c", "t", "i", "o", "n", "(">>,
    <<".", ".", "/">>,
    <<".", ".", "\\">>,
    <<"_", "_", "p", "r", "o", "t", "o", "_", "_">>,
    <<"p", "r", "o", "t", "o", "t", "y", "p", "e">>,
    <<"c", "o", "n", "s", "t", "r", "u", "c", "t", "o", "r">> }

\* The signatures A...B: A, and B anywhere after it.
OrderedSignatures ==
  { <<<<"s", "e", "l", "e", "c", "t">>, <<"f", "r", "o", "m">>>>,
    <<<<"u", "n", "i", "o", "n">>, <<"s", "e", "l", "e", "c", "t">>>>,
    <<<<"u", "p", "d", "a", "t", "e">>, <<"s", "e", "t">>>> }

\* s, in lower case, holds one of the signatures.
ContainsSignature(s) ==
  \/ \E t \in LiteralSignatures : Occurrences(s, t) # {}
  \/ \E ab \in OrderedSignatures :
       \E i \in Occurrences(s, ab[1]) : \E j \in Occurrences(s, ab[2]) :
         j >= i + Len(ab[1])

\* C16: no accepted dish contains, in any letter case and anywhere, one of
\* the malicious signatures.
C16_NoSignatureAccepted ==
  (TextAccepted /\ HasStringDish(submitted)) =>
    ~ContainsSignature(toLowerCase(SubmittedDish))

ChickenBiryani == <<"C", "h", "i", "c", "k", "e", "n", " ", "B", "i", "r", "y", "a", "n", "i">>

\* C17: after an acceptance req.body is { dish: v } and nothing else, v is
\* the submitted dish trimmed, without '<' and '>', cut to 200 characters;
\* v has between 1 and 200 characters and no whitespace at either end, and
\* 'Chicken Biryani' comes out as it went in.
C17_AcceptedBodyIsSanitizedDish ==
  TextAccepted =>
    LET d == SubmittedDish
        t == SelectSeq(trim(d), LAMBDA c : c # "<" /\ c # ">")
        v == Prop(body, DishKey).str
    IN  /\ body.kind = "object"
        /\ Len(body.props) = 1
        /\ body.props[1].key = DishKey
        /\ body.props[1].type = "string"
        /\ v = SubSeq(t, 1, IF Len(t) > MaxDishLength THEN MaxDishLength
                            ELSE Len(t))
        /\ Len(v) \in MinDishLength..MaxDishLength
        /\ v[1] \notin Whitespace
        /\ v[Len(v)] \notin Whitespace
        /\ d = ChickenBiryani => v = ChickenBiryani

\* A dish sent with whitespace around it was accepted and trimmed.
C17_Witness ==
  /\ TextAccepted
  /\ SubmittedDish[1] \in Whitespace
  /\ Prop(body, DishKey).str # SubmittedDish
  /\ body # submitted

\* C18: a body { dish: s } with s empty or made of whitespace only is never
\* accepted, and is rejected with 'Dish name cannot be empty'.
C18_BlankDishRejectedAsEmpty ==
  (TextValidated /\ OnlyStringDish(submitted)
   /\ Len(trim(SubmittedDish)) = 0)
  => /\ TextRejected
     /\ textError.detail = MsgEmpty

\* ------------------------------------------------------------------------
\* middleware/validation: validateImageUpload
\* ------------------------------------------------------------------------

\* config.upload.maxFileSizeMB, by default.
MAX_FILE_SIZE_MB == 10

maxSizeBytes == MAX_FILE_SIZE_MB * 1024 * 1024

allowedTypes == {"image/jpeg", "image/jpg", "image/png", "image/webp"}

\* The longest file name that is let through.
MaxFilenameLength == 255

\* The shortest buffer that is let through.
MinBufferLength == 100

\* The number of leading bytes read from the buffer.
HeaderLength == 4

\* The extensions of suspiciousFilenames, with their dot.
SuspiciousExtensions ==
  { <<".", "e", "x", "e">>,
    <<".", "b", "a", "t">>,
    <<".", "c", "m", "d">>,
    <<".", "s", "c", "r">>,
    <<".", "p", "i", "f">>,
    <<".", "c", "o", "m">>,
    <<".", "j", "a", "r">>,
    <<".", "p", "h", "p">>,
    <<".", "j", "s", "p">>,
    <<".", "a", "s", "p">>,
    <<".", "j", "s">>,
    <<".", "v", "b", "s">>,
    <<".", "s", "h">>,
    <<".", "p", "y">> }

\* /ext$/i.test(name)
endsWith(name, ext) ==
  /\ Len(name) >= Len(ext)
  /\ SubSeq(toLowerCase(name), Len(name) - Len(ext) + 1, Len(name)) = ext

\* The test of the extension without the i flag.
hasSuspiciousFilenameCaseSensitive(name) ==
  \E ext \in SuspiciousExtensions :
    /\ Len(name) >= Len(ext)
    /\ SubSeq(name, Len(name) - Len(ext) + 1, Len(name)) = ext

hasSuspiciousFilename(name) ==
  \E ext \in SuspiciousExtensions : endsWith(name, ext)

\* The types imageHeaders has an entry for.
HeaderTypes == {"image/jpeg", "image/png", "image/webp"}

imageHeaders ==
  [type \in HeaderTypes |->
     CASE type = "image/jpeg" -> <<255, 216, 255>>
       [] type = "image/png" -> <<137, 80, 78, 71>>
       [] type = "image/webp" -> <<82, 73, 70, 70>>]

\* The header check switched off.
isValidHeaderAlways(f) == TRUE

\* Object.entries(imageHeaders).some(([type, header]) => type ===
\* file.mimetype && header.every((byte, index) => fileHeader[index] ===
\* byte)); an index past the end of fileHeader reads undefined.
isValidHeader(f) ==
  \E type \in HeaderTypes :
    /\ type = f.mimetype
    /\ \A index \in 1..Len(imageHeaders[type]) :
         /\ index <= Len(f.header)
         /\ f.header[index] = imageHeaders[type][index]

MsgNoFile == "No image file provided"
MsgFileType ==
  "Invalid file type. Allowed types: image/jpeg, image/jpg, image/png, image/webp"
MsgFileSize == "File size exceeds maximum allowed size of 10MB"
MsgFileEmpty == "Uploaded file is empty or corrupted"
MsgFilenameLong == "Filename is too long"
MsgFileExtension == "Invalid file extension"
MsgFileSmall == "File is too small to be a valid image"
MsgFileHeader == "File header does not match declared image type"

\* file.originalname is a string that is not empty.
HasFilename(f) == f.hasName /\ f.originalname # <<>>

\* The error validateImageUpload hands to next, NoError when it accepts.
\* The details of the errors are objects the model leaves out.
validateImageUpload(f) ==
  IF ~f.present THEN ValidationError(MsgNoFile, <<>>, "")
  ELSE IF f.mimetype \notin allowedTypes
  THEN ValidationError(MsgFileType, <<>>, "")
  ELSE IF f.size > maxSizeBytes THEN ValidationError(MsgFileSize, <<>>, "")
  ELSE IF ~f.hasBuffer \/ f.bufferLength = 0
  THEN ValidationError(MsgFileEmpty, <<>>, "")
  ELSE IF HasFilename(f) /\ Len(f.originalname) > MaxFilenameLength
  THEN ValidationError(MsgFilenameLong, <<>>, "")
  ELSE IF HasFilename(f) /\ hasSuspiciousFilename(f.originalname)
  THEN ValidationError(MsgFileExtension, <<>>, "")
  ELSE IF f.bufferLength < MinBufferLength
  THEN ValidationError(MsgFileSmall, <<>>, "")
  ELSE IF ~isValidHeader(f) THEN ValidationError(MsgFileHeader, <<>>, "")
  ELSE NoError

\* ------------------------------------------------------------------------
\* Inputs of validateImageUpload
\* ------------------------------------------------------------------------

MimeTypes == allowedTypes \cup {"image/gif", "application/pdf", "text/html"}

\* The first bytes of a JPEG (two variants), a PNG, a WEBP, a GIF, a buffer
\* of zeros, and a buffer that begins like a JPEG for two bytes.
Headers ==
  { <<255, 216, 255, 224>>, <<255, 216, 255, 225>>, <<137, 80, 78, 71>>,
    <<82, 73, 70, 70>>, <<71, 73, 70, 56>>, <<0, 0, 0, 0>>,
    <<255, 216, 0, 0>> }

BufferLengths == {0, 3, MinBufferLength - 1, MinBufferLength, 1004}

\* What file.size is: the length of the buffer, or a size at and past the
\* maximum.
Sizes(n) == {n, maxSizeBytes, maxSizeBytes + 1}

Filenames ==
  { <<"t", "e", "s", "t", ".", "j", "p", "g">>,
    <<"f", "a", "k", "e", ".", "j", "p", "g">>,
    <<"m", "a", "l", "w", "a", "r", "e", ".", "e", "x", "e">>,
    <<"m", "a", "l", "w", "a", "r", "e", ".", "j", "p", "g", ".", "e", "x", "e">>,
    <<"p", "h", "o", "t", "o", ".", "J", "P", "G">>,
    <<"s", "c", "r", "i", "p", "t", ".", "J", "S">>,
    <<"r", "u", "n", ".", "s", "h">>,
    <<"a", ".", "p", "y">>,
    <<"p", "h", "o", "t", "o", ".", "p", "n", "g">>,
    <<"e", "x", "e">>,
    <<"m", "y", ".", "e", "x", "e", "f", "i", "l", "e", ".", "p", "n", "g">>,
    <<"s", "h", "e", "l", "l", ".", "p", "h", "p", ".", "w", "e", "b", "p">>,
    Repeat("a", MaxFilenameLength - 4) \o <<".", "j", "p", "g">>,
    Repeat("a", MaxFilenameLength - 3) \o <<".", "j", "p", "g">>,
    Repeat("a", MaxFilenameLength - 3) \o <<".", "e", "x", "e">> }

\* A file with a buffer of n bytes that begins with the bytes h.
FileOf(type, size, n, h, hasName, name) ==
  [present |-> TRUE, mimetype |-> type, size |-> size, hasBuffer |-> TRUE,
   bufferLength |-> n,
   header |-> SubSeq(h, 1, IF n < HeaderLength THEN n ELSE HeaderLength),
   hasName |-> hasName, originalname |-> name]

Files ==
  { NoFile } \cup
  { [FileOf(type, 0, 0, <<>>, TRUE, <<"a", ".", "p", "n", "g">>)
       EXCEPT !.hasBuffer = FALSE] : type \in MimeTypes } \cup
  { FileOf(type, size, n, h, TRUE, name) :
      type \in MimeTypes, n \in BufferLengths, size \in Sizes(1004),
      h \in Headers, name \in Filenames \cup {<<>>} } \cup
  { FileOf(type, n, n, h, FALSE, <<>>) :
      type \in MimeTypes, n \in BufferLengths, h \in Headers }

\* ------------------------------------------------------------------------
\* POST /estimate/image: validateImageUpload
\* ------------------------------------------------------------------------

InitImage ==
  /\ file \in Files
  /\ imagePc = "validate"
  /\ imageError = NoError
  /\ imageNextCalls = 0
  /\ CarbonIdle
  /\ TextIdle
  /\ ServerIdle
  /\ AiIdle

\* The handler keeping its error in a variable of the module that the text
\* validator uses as well.
ValidateImageUploadSharedError ==
  /\ imagePc = "validate"
  /\ imageError' = validateImageUpload(file)
  /\ textError' = imageError'
  /\ imagePc' = IF imageError' = NoError THEN "accepted" ELSE "error"
  /\ imageNextCalls' = imageNextCalls + 1
  /\ UNCHANGED <<file, carbonVars, submitted, body, textPc, textResponse,
                 textNextCalls, serverVars, aiVars>>

\* validateImageUpload(req, res, next): next(err) on a rejection, next() on
\* acceptance.
ValidateImageUpload ==
  /\ imagePc = "validate"
  /\ imageError' = validateImageUpload(file)
  /\ imagePc' = IF imageError' = NoError THEN "accepted" ELSE "error"
  /\ imageNextCalls' = imageNextCalls + 1
  /\ UNCHANGED <<file, carbonVars, textVars, serverVars, aiVars>>

NextImage == ValidateImageUpload

SpecImage == InitImage /\ [][NextImage]_vars

\* ------------------------------------------------------------------------
\* Properties of validateImageUpload
\* ------------------------------------------------------------------------

ImageValidated == imagePc \in {"accepted", "error"}

ImageAccepted == imagePc = "accepted"

ImageRejected == imagePc = "error"

\* The magic number of each allowed type.
JpegSignature == <<255, 216, 255>>
PngSignature == <<137, 80, 78, 71>>
WebpSignature == <<82, 73, 70, 70>>

SignatureOf(type) ==
  CASE type \in {"image/jpeg", "image/jpg"} -> JpegSignature
    [] type = "image/png" -> PngSignature
    [] type = "image/webp" -> WebpSignature

\* The leading bytes of f are the signature of the type f declares.
HeaderMatchesDeclaredType(f) ==
  /\ f.mimetype \in allowedTypes
  /\ Len(f.header) >= Len(SignatureOf(f.mimetype))
  /\ SubSeq(f.header, 1, Len(SignatureOf(f.mimetype)))
       = SignatureOf(f.mimetype)

\* f has no file name, or one of at most 255 characters without a
\* denylisted extension.
FilenamePasses(f) ==
  \/ ~f.hasName
  \/ /\ Len(f.originalname) <= 255
     /\ \A ext \in SuspiciousExtensions : ~endsWith(f.originalname, ext)

\* f passes every check that comes before the check of the header.
PassesEarlierChecks(f) ==
  /\ f.present
  /\ f.mimetype \in allowedTypes
  /\ f.size <= maxSizeBytes
  /\ f.hasBuffer
  /\ f.bufferLength >= 100

\* C19: a file that is present, declares an allowed type, is within the
\* maximum size, has a buffer of at least 100 bytes, has no file name or one
\* that passes, and begins with the signature of its declared type, is
\* accepted.
C19_ValidImageAccepted ==
  (/\ ImageValidated
   /\ PassesEarlierChecks(file)
   /\ FilenamePasses(file)
   /\ HeaderMatchesDeclaredType(file))
  => ImageAccepted

ZeroHeader == <<0, 0, 0, 0>>

\* A buffer of zeros declared as image/jpeg, its type and sizes passing.
SpoofedJpeg ==
  /\ PassesEarlierChecks(file)
  /\ file.mimetype = "image/jpeg"
  /\ file.header = ZeroHeader

HasDenylistedExtension(f) ==
  /\ f.present
  /\ f.hasName
  /\ \E ext \in SuspiciousExtensions : endsWith(f.originalname, ext)

\* C21: a file whose name ends, in any letter case, in a denylisted
\* extension is rejected, also when its type is allowed and its buffer
\* begins with the signature of that type.
C21_DenylistedExtensionRejected ==
  (ImageValidated /\ HasDenylistedExtension(file)) => ImageRejected

\* A file with the bytes of a JPEG, declared as one, and an extension in
\* upper case that is denylisted, was rejected for its extension.
C21_Witness ==
  /\ ImageRejected
  /\ HasDenylistedExtension(file)
  /\ ~hasSuspiciousFilenameCaseSensitive(file.originalname)
  /\ PassesEarlierChecks(file)
  /\ HeaderMatchesDeclaredType(file)
  /\ imageError.message = MsgFileExtension

\* ------------------------------------------------------------------------
\* middleware/auth: optionalAuth
\* ------------------------------------------------------------------------

\* The keys VALID_API_KEYS holds the hashes of.  The hash is a keyed HMAC;
\* two keys have the same hash exactly when they are the same key.
VALID_API_KEYS ==
  { <<"d", "e", "m", "o", "-", "k", "e", "y", "-", "1">>,
    <<"t", "e", "s", "t", "-", "k", "e", "y", "-", "2">>,
    <<"f", "o", "o", "d", "p", "r", "i", "n", "t", "-", "a", "p", "i", "-", "k", "e", "y">> }

\* The shortest API key optionalAuth looks up.
MinApiKeyLength == 8

\* The characters /[^a-zA-Z0-9\-_]/g leaves in place.
ApiKeyChars == LowerLetters \cup UpperLetters \cup Digits \cup {"-", "_"}

BearerPrefix == <<"B", "e", "a", "r", "e", "r", " ">>

\* s.replace(t, ''): s without the first occurrence of t.
removeFirst(s, t) ==
  IF Occurrences(s, t) = {} THEN s
  ELSE LET i == CHOOSE i \in Occurrences(s, t) :
                  \A j \in Occurrences(s, t) : i <= j
       IN  SubSeq(s, 1, i - 1) \o SubSeq(s, i + Len(t), Len(s))

\* req.headers['x-api-key'] || req.headers['authorization']?.replace(
\* 'Bearer ', ''); an absent header is <<>>.
presentedApiKey(req) ==
  IF req.xApiKey # <<>> THEN req.xApiKey
  ELSE removeFirst(req.authorization, BearerPrefix)

\* req.auth?.apiKey after optionalAuth, <<>> when req.auth is left undefined.
optionalAuth(req) ==
  LET apiKey == presentedApiKey(req)
  IN  IF /\ apiKey # <<>>
         /\ Len(apiKey) >= MinApiKeyLength
         /\ SelectSeq(apiKey, LAMBDA c : c \in ApiKeyChars) = apiKey
         /\ apiKey \in VALID_API_KEYS
      THEN apiKey
      ELSE <<>>

\* ------------------------------------------------------------------------
\* middleware/rateLimit: rateLimiter
\* ------------------------------------------------------------------------

\* config.rateLimit.maxRequests: RATE_LIMIT_MAX_REQUESTS of the environment
\* (100 when it is not set).
RATE_LIMIT_MAX_REQUESTS == 3

\* How many requests past the limit a key sends before its window ends.
MaxOverLimit == 2

TOO_MANY_REQUESTS == 429
NOT_FOUND == 404
OK == 200
SERVICE_UNAVAILABLE == 503

UnknownClient == <<"u", "n", "k", "n", "o", "w", "n">>

\* keyGenerator: req.auth?.apiKey || req.ip || 'unknown'
keyGenerator(auth, ip) ==
  IF auth # <<>> THEN auth ELSE IF ip # <<>> THEN ip ELSE UnknownClient

\* skip: req.path === '/health' || req.path === '/'
skip(path) == path = "/health" \/ path = "/"

\* The requests the store has counted for key k in its window.
hitsOf(store, k) == IF k \in DOMAIN store THEN store[k] ELSE 0

\* The store after one more request of key k.
increment(store, k) ==
  [j \in DOMAIN store \cup {k} |-> IF j = k THEN hitsOf(store, k) + 1
                                   ELSE store[j]]

\* The store after the window of key k has ended.
resetKey(store, k) == [j \in DOMAIN store \ {k} |-> store[j]]

\* The limit counting one request more than max before it answers 429.
overLimitLate(count) == count > RATE_LIMIT_MAX_REQUESTS + 1

\* The request whose count in the window is `count` is over the limit.
overLimit(count) == count > RATE_LIMIT_MAX_REQUESTS

\* The body rateLimiter answers with.
RateLimitResponse ==
  [status |-> TOO_MANY_REQUESTS, code |-> "RATE_LIMIT_ERROR",
   message |-> "Too many requests, please try again later", field |-> <<>>,
   detail |-> ""]

\* ------------------------------------------------------------------------
\* Errors that are not AppErrors
\* ------------------------------------------------------------------------

\* new AIServiceError(message); the details are left out.
AIServiceError(message) ==
  [class |-> "AIServiceError", name |-> "AppError",
   statusCode |-> SERVICE_UNAVAILABLE, code |-> "AI_SERVICE_ERROR",
   message |-> message, field |-> <<>>, detail |-> ""]

\* An error that is no instance of AppError, with the name its class gives
\* it: new Error(message), a MulterError, the SyntaxError of a JSON parser,
\* the ValidationError of a library.
ErrorNamed(name, message) ==
  [class |-> "Error", name |-> name, statusCode |-> 0, code |-> "",
   message |-> message, field |-> <<>>, detail |-> ""]

\* ------------------------------------------------------------------------
\* routes/estimate: upload
\* ------------------------------------------------------------------------

MsgInvalidFileType ==
  "Invalid file type. Allowed: image/jpeg, image/jpg, image/png, image/webp"
MsgFileTooLarge == "File too large"

\* A fileFilter that hands its rejection on as a MulterError.
fileFilterMulterError(f) ==
  IF f.mimetype \in allowedTypes THEN NoError
  ELSE ErrorNamed("MulterError", MsgInvalidFileType)

\* fileFilter: cb(null, true) for an allowed type, cb(new Error(...)) else.
fileFilter(f) ==
  IF f.mimetype \in allowedTypes THEN NoError
  ELSE ErrorNamed("Error", MsgInvalidFileType)

\* upload.single('image'): the error handed to next, NoError when the file
\* part, if there is one, was stored in req.file.  The filter sees the part
\* before its bytes are read; the size limit is met while they are read.
upload(f) ==
  IF ~f.present THEN NoError
  ELSE IF fileFilter(f) # NoError THEN fileFilter(f)
  ELSE IF f.bufferLength > maxSizeBytes
  THEN ErrorNamed("MulterError", MsgFileTooLarge)
  ELSE NoError

\* ------------------------------------------------------------------------
\* Requests
\* ------------------------------------------------------------------------

EstimatePath == "/api/v1/estimate"
EstimateImagePath == "/api/v1/estimate/image"

ClientIps == { <<"1", "0", ".", "0", ".", "0", ".", "1">>, <<"1", "0", ".", "0", ".", "0", ".", "2">> }

DemoKey1 == <<"d", "e", "m", "o", "-", "k", "e", "y", "-", "1">>
TestKey2 == <<"t", "e", "s", "t", "-", "k", "e", "y", "-", "2">>

\* The headers x-api-key and authorization of a request: none, a valid key
\* in either header, a key that is too short, one with a character outside
\* the alphabet, and one that is well formed and unknown.
Credentials ==
  { [xApiKey |-> <<>>, authorization |-> <<>>],
    [xApiKey |-> DemoKey1, authorization |-> <<>>],
    [xApiKey |-> TestKey2, authorization |-> <<>>],
    [xApiKey |-> <<>>, authorization |-> BearerPrefix \o DemoKey1],
    [xApiKey |-> <<"k", "e", "y", "-", "1">>, authorization |-> <<>>],
    [xApiKey |-> <<"d", "e", "m", "o", " ", "k", "e", "y", " ", "1", "!">>, authorization |-> <<>>],
    [xApiKey |-> <<"o", "t", "h", "e", "r", "-", "k", "e", "y", "-", "3">>, authorization |-> <<>>] }

\* The file parts sent to /estimate/image: none, a JPEG, 'test.txt',
\* 'malware.jpg.exe' as an executable and as a JPEG, a JPEG past the size
\* limit, and a buffer of zeros declared a JPEG.
Uploads ==
  { NoFile,
    FileOf("image/jpeg", 1004, 1004, <<255, 216, 255, 224>>, TRUE,
           <<"t", "e", "s", "t", ".", "j", "p", "g">>),
    FileOf("text/plain", 12, 12, <<110, 111, 116, 32>>, TRUE,
           <<"t", "e", "s", "t", ".", "t", "x", "t">>),
    FileOf("application/x-msdos-program", 13, 13, <<77, 90, 32, 101>>, TRUE,
           <<"m", "a", "l", "w", "a", "r", "e", ".", "j", "p", "g", ".", "e", "x", "e">>),
    FileOf("image/jpeg", 1004, 1004, <<255, 216, 255, 224>>, TRUE,
           <<"m", "a", "l", "w", "a", "r", "e", ".", "j", "p", "g", ".", "e", "x", "e">>),
    FileOf("image/jpeg", maxSizeBytes + 1, maxSizeBytes + 1,
           <<255, 216, 255, 224>>, TRUE, <<"l", "a", "r", "g", "e", ".", "j", "p", "g">>),
    FileOf("image/jpeg", 1000, 1000, <<0, 0, 0, 0>>, TRUE,
           <<"c", "o", "r", "r", "u", "p", "t", "e", "d", ".", "j", "p", "g">>) }

EmptyObjectBody == [kind |-> "object", props |-> <<>>]

\* The JSON bodies sent to /estimate.
RequestBodies ==
  { DishBody(ChickenBiryani),
    DishBody(<<"<", "s", "c", "r", "i", "p", "t", ">", "a", "l", "e", "r", "t", "(", "1", ")", "<", "/", "s", "c", "r", "i", "p", "t", ">">>),
    EmptyObjectBody }

\* What a client sends apart from its address and its credentials.  json is
\* "malformed" for a body express.json cannot parse.
Endpoints ==
  { [method |-> "GET", path |-> "/health", json |-> "none", body |-> NoBody,
     upload |-> NoFile],
    [method |-> "GET", path |-> "/", json |-> "none", body |-> NoBody,
     upload |-> NoFile],
    [method |-> "GET", path |-> "/api/v2/estimate", json |-> "none",
     body |-> NoBody, upload |-> NoFile],
    [method |-> "POST", path |-> EstimatePath, json |-> "malformed",
     body |-> NoBody, upload |-> NoFile] } \cup
  { [method |-> "POST", path |-> EstimatePath, json |-> "valid", body |-> b,
     upload |-> NoFile] : b \in RequestBodies } \cup
  { [method |-> "POST", path |-> EstimateImagePath, json |-> "none",
     body |-> EmptyObjectBody, upload |-> u] : u \in Uploads }

Requests ==
  { [ip |-> ip, xApiKey |-> c.xApiKey, authorization |-> c.authorization,
     method |-> e.method, path |-> e.path, json |-> e.json, body |-> e.body,
     upload |-> e.upload] :
      ip \in ClientIps, c \in Credentials, e \in Endpoints }

\* ------------------------------------------------------------------------
\* server: the chain of middleware and routes
\* ------------------------------------------------------------------------

InitServer ==
  /\ ServerIdle
  /\ CarbonIdle
  /\ TextIdle
  /\ ImageIdle
  /\ AiIdle

\* A request arrives once the one before it has been answered.  No key
\* sends more than MaxOverLimit requests past the limit in one window.
Receive ==
  /\ serverPc \in {"idle", "responded"}
  /\ \A k \in DOMAIN hits : hits[k] < RATE_LIMIT_MAX_REQUESTS + MaxOverLimit
  /\ request' \in Requests
  /\ reqAuth' = <<>>
  /\ rateKey' = <<>>
  /\ serverError' = NoError
  /\ serverResponse' = NoResponse
  /\ responsesSent' = 0
  /\ serverPc' = "rateLimiter"
  /\ UNCHANGED <<hits, carbonVars, textVars, imageVars, aiVars>>

\* app.use(rateLimiter): a request to a skipped path goes on uncounted; any
\* other is counted under its key, and answered 429 when over the limit.
RateLimiter ==
  /\ serverPc = "rateLimiter"
  /\ IF skip(request.path)
     THEN /\ serverPc' = "json"
          /\ UNCHANGED <<hits, rateKey, serverResponse, responsesSent>>
     ELSE LET key == keyGenerator(reqAuth, request.ip)
          IN  /\ rateKey' = key
              /\ hits' = increment(hits, key)
              /\ IF overLimit(hits'[key])
                 THEN /\ serverResponse' = RateLimitResponse
                      /\ responsesSent' = responsesSent + 1
                      /\ serverPc' = "responded"
                 ELSE /\ serverPc' = "json"
                      /\ UNCHANGED <<serverResponse, responsesSent>>
  /\ UNCHANGED <<request, reqAuth, serverError, carbonVars, textVars,
                 imageVars, aiVars>>

\* The window of a key ends and its count starts again.
WindowExpires ==
  /\ \E k \in DOMAIN hits : hits' = resetKey(hits, k)
  /\ UNCHANGED <<request, reqAuth, rateKey, serverPc, serverError,
                 serverResponse, responsesSent, carbonVars, textVars,
                 imageVars, aiVars>>

\* app.use(express.json(...)): a body that does not parse is a SyntaxError
\* handed to next.
JsonParser ==
  /\ serverPc = "json"
  /\ IF request.json = "malformed"
     THEN /\ serverError' = ErrorNamed("SyntaxError", "Unexpected token")
          /\ serverPc' = "errorHandler"
     ELSE /\ serverError' = serverError
          /\ serverPc' = "route"
  /\ UNCHANGED <<hits, request, reqAuth, rateKey, serverResponse,
                 responsesSent, carbonVars, textVars, imageVars, aiVars>>

\* app.get('/health', ...)
Health ==
  /\ serverPc = "route"
  /\ request.method = "GET" /\ request.path = "/health"
  /\ serverResponse' = [status |-> OK, code |-> "", message |-> "ok",
                        field |-> <<>>, detail |-> ""]
  /\ responsesSent' = responsesSent + 1
  /\ serverPc' = "responded"
  /\ UNCHANGED <<hits, request, reqAuth, rateKey, serverError, carbonVars,
                 textVars, imageVars, aiVars>>

\* The request is for a route of routes/estimate.
IsEstimateRoute(req) ==
  req.method = "POST" /\ req.path \in {EstimatePath, EstimateImagePath}

\* optionalAuth as the first handler of both routes: sets req.auth for a
\* valid key and goes on in every case.
OptionalAuth ==
  /\ serverPc = "route"
  /\ IsEstimateRoute(request)
  /\ reqAuth' = optionalAuth(request)
  /\ serverPc' = IF request.path = EstimatePath THEN "validateText"
                 ELSE "upload"
  /\ UNCHANGED <<hits, request, rateKey, serverError, serverResponse,
                 responsesSent, carbonVars, textVars, imageVars, aiVars>>

\* upload.single('image')
Upload ==
  /\ serverPc = "upload"
  /\ serverError' = upload(request.upload)
  /\ serverPc' = IF serverError' = NoError THEN "validateImage"
                 ELSE "errorHandler"
  /\ UNCHANGED <<hits, request, reqAuth, rateKey, serverResponse,
                 responsesSent, carbonVars, textVars, imageVars, aiVars>>

\* validateTextEstimation as a handler of POST /estimate.
RouteValidateText ==
  /\ serverPc = "validateText"
  /\ serverError' = validateTextEstimation(request.body)
  /\ IF serverError' = NoError
     THEN /\ request' =
               [request EXCEPT !.body =
                  DishBody(sanitizeTextInput(Prop(request.body, DishKey).str))]
          /\ serverPc' = "controller"
     ELSE /\ request' = request
          /\ serverPc' = "errorHandler"
  /\ UNCHANGED <<hits, reqAuth, rateKey, serverResponse, responsesSent,
                 carbonVars, textVars, imageVars, aiVars>>

\* validateImageUpload as a handler of POST /estimate/image.
RouteValidateImage ==
  /\ serverPc = "validateImage"
  /\ serverError' = validateImageUpload(request.upload)
  /\ serverPc' = IF serverError' = NoError THEN "controller"
                 ELSE "errorHandler"
  /\ UNCHANGED <<hits, request, reqAuth, rateKey, serverResponse,
                 responsesSent, carbonVars, textVars, imageVars, aiVars>>

\* new AppError(message): status 500 and code INTERNAL_ERROR by default.
AppError(message) ==
  [class |-> "AppError", name |-> "AppError",
   statusCode |-> INTERNAL_SERVER_ERROR, code |-> "INTERNAL_ERROR",
   message |-> message, field |-> <<>>, detail |-> ""]

\* What the promise of a controller rejects with: errors of the services,
\* AppErrors, and errors of other classes under the names errorHandler
\* tells apart.
ControllerErrors ==
  { AIServiceError("Failed to extract ingredients from dish name"),
    AIServiceError("AI service request timed out, please try again"),
    ValidationError("No ingredients could be identified", <<>>, ""),
    AppError("Estimate could not be computed"),
    ErrorNamed("Error", "connect ECONNREFUSED 127.0.0.1:443"),
    ErrorNamed("TypeError", "Cannot read properties of undefined"),
    ErrorNamed("ValidationError", "\"ingredients\" is required"),
    ErrorNamed("MulterError", "Unexpected field") }

\* asyncHandler(estimateFromText) and asyncHandler(estimateFromImage): the
\* controller answers, or its promise rejects and the error goes to next.
Controller ==
  /\ serverPc = "controller"
  /\ \/ /\ serverResponse' = [status |-> OK, code |-> "", message |-> "",
                              field |-> <<>>, detail |-> ""]
        /\ responsesSent' = responsesSent + 1
        /\ serverPc' = "responded"
        /\ serverError' = serverError
     \/ /\ serverError' \in ControllerErrors
        /\ serverPc' = "errorHandler"
        /\ UNCHANGED <<serverResponse, responsesSent>>
  /\ UNCHANGED <<hits, request, reqAuth, rateKey, carbonVars, textVars,
                 imageVars, aiVars>>

\* app.use(notFoundHandler): no route took the request.  The message names
\* the method and the path, which the model leaves out.
NotFoundHandler ==
  /\ serverPc = "route"
  /\ ~(request.method = "GET" /\ request.path = "/health")
  /\ ~IsEstimateRoute(request)
  /\ serverResponse' = [status |-> NOT_FOUND, code |-> "VALIDATION_ERROR",
                        message |-> "Route not found", field |-> <<>>,
                        detail |-> ""]
  /\ responsesSent' = responsesSent + 1
  /\ serverPc' = "responded"
  /\ UNCHANGED <<hits, request, reqAuth, rateKey, serverError, carbonVars,
                 textVars, imageVars, aiVars>>

\* app.use(errorHandler)
ServerErrorHandler ==
  /\ serverPc = "errorHandler"
  /\ serverResponse' = errorHandler(serverError)
  /\ responsesSent' = responsesSent + 1
  /\ serverPc' = "responded"
  /\ UNCHANGED <<hits, request, reqAuth, rateKey, serverError, carbonVars,
                 textVars, imageVars, aiVars>>

NextServer ==
  \/ Receive
  \/ RateLimiter
  \/ WindowExpires
  \/ JsonParser
  \/ Health
  \/ OptionalAuth
  \/ Upload
  \/ RouteValidateText
  \/ RouteValidateImage
  \/ Controller
  \/ NotFoundHandler
  \/ ServerErrorHandler

SpecServer == InitServer /\ [][NextServer]_vars

\* ------------------------------------------------------------------------
\* Properties of the chain of POST /estimate/image and of the rate limit
\* ------------------------------------------------------------------------

\* The request has been answered by something other than the rate limiter.
AnsweredPastLimiter ==
  serverPc = "responded" /\ serverResponse # RateLimitResponse

\* The request is an upload to /estimate/image whose declared type is not
\* an allowed one.
DisallowedMimeUpload(req) ==
  /\ req.method = "POST" /\ req.path = EstimateImagePath
  /\ req.upload.present
  /\ req.upload.mimetype \notin allowedTypes

\* C22: through the whole chain of POST /api/v1/estimate/image an upload
\* whose declared MIME type is not allowed is answered with status 400 and
\* never with a 5xx status.
C22_DisallowedMimeAnswered400 ==
  (AnsweredPastLimiter /\ DisallowedMimeUpload(request)) =>
    serverResponse.status = BAD_REQUEST

\* C23: a request to a route of the API that carries a valid API key is
\* counted under that key; only requests without one are counted under
\* their address.
C23_CountedPerApiKey ==
  (serverPc \notin {"idle", "rateLimiter"} /\ IsEstimateRoute(request)) =>
    rateKey = keyGenerator(optionalAuth(request), request.ip)

\* C24: a request to a path that is not skipped, from a key that has made
\* the configured maximum of requests in its window, is answered 429 with
\* the code RATE_LIMIT_ERROR and goes to no later handler; a request to
\* /health or / is never counted and never refused; counts grow by
\* counted requests only.
C24_OverLimitAnswered429 ==
  [][ /\ (serverPc = "rateLimiter" /\ serverPc' # "rateLimiter") =>
           IF skip(request.path)
           THEN hits' = hits /\ serverPc' = "json"
           ELSE hitsOf(hits, keyGenerator(reqAuth, request.ip))
                  >= RATE_LIMIT_MAX_REQUESTS =>
                  /\ serverPc' = "responded"
                  /\ serverResponse' = RateLimitResponse
                  /\ serverResponse'.status = TOO_MANY_REQUESTS
                  /\ serverResponse'.code = "RATE_LIMIT_ERROR"
                  /\ responsesSent' = 1
      /\ serverPc = "responded" => serverPc' \in {"responded", "rateLimiter"}
      /\ (\E k \in DOMAIN hits' : hitsOf(hits', k) > hitsOf(hits, k)) =>
           serverPc = "rateLimiter" /\ ~skip(request.path)
    ]_vars

\* A request to /estimate was refused with 429 while a request to /health
\* would still pass: the key of the refused request is over the limit.
C24_Witness ==
  /\ serverPc = "responded"
  /\ request.path = EstimatePath
  /\ serverResponse = RateLimitResponse
  /\ hitsOf(hits, rateKey) > RATE_LIMIT_MAX_REQUESTS
  /\ serverError = NoError

\* ------------------------------------------------------------------------
\* The order of the checks of the text validator
\* ------------------------------------------------------------------------

\* The reason a rejection reports: the detail of a schema error, the message
\* of any other.
ReasonOf(err) == IF err.detail # "" THEN err.detail ELSE err.message

\* The dish of body b when it is a string, the empty string otherwise.
DishOf(b) == IF HasStringDish(b) THEN Prop(b, DishKey).str ELSE <<>>

\* Each check of the validator on its own: whether body b fails it.
FailsCheck(c, b) ==
  CASE c = "object" -> b.kind \notin {"object", "array"}
    [] c = "size" -> jsonLength(b) > MaxBodyLength
    [] c = "keys" -> Len(b.props) > MaxBodyKeys
    [] c = "allowed" -> HasOtherKey(b)
    [] c = "string" -> ~HasStringDish(b)
    [] c = "length" ->
         Len(DishOf(b)) < MinDishLength \/ Len(DishOf(b)) > MaxDishLength
    [] c = "pattern" ->
         \E i \in 1..Len(DishOf(b)) : DishOf(b)[i] \notin AllowedChars
    [] c = "trimmed" -> Len(trim(DishOf(b))) = 0
    [] c = "malicious" -> isSuspicious(DishOf(b))
    [] c = "repeated" -> hasRepeatedChars(DishOf(b))

\* The reason the check reports.
ReasonOfCheck(c, b) ==
  CASE c = "object" -> "Request body must be a valid JSON object"
    [] c = "size" -> "Request body is too large"
    [] c = "keys" -> "Request body has too many properties"
    [] c = "allowed" -> MsgUnknownKey
    [] c = "string" ->
         IF b.kind = "array" THEN MsgObjectBase
         ELSE IF ~HasOwn(b, DishKey) \/ Prop(b, DishKey).type = "undefined"
         THEN MsgRequired
         ELSE MsgStringBase
    [] c = "length" -> IF Len(DishOf(b)) < MinDishLength THEN MsgEmpty
                       ELSE MsgMax
    [] c = "pattern" -> MsgPattern
    [] c = "trimmed" -> MsgEmpty
    [] c = "malicious" -> MsgMalicious
    [] c = "repeated" -> MsgRepeated

\* The reason of the first check of the sequence order that body b fails,
\* "" when it passes them all.
firstFailing(order, b) ==
  LET failing == SelectSeq(order, LAMBDA c : FailsCheck(c, b))
  IN  IF failing = <<>> THEN "" ELSE ReasonOfCheck(Head(failing), b)

\* The order in which the checks are listed.
ListedOrder ==
  <<"object", "size", "keys", "allowed", "string", "length", "pattern",
    "trimmed", "malicious", "repeated">>

\* The order in which the checks run: the schema looks for keys it does not
\* know after it has validated dish.
AppliedOrder ==
  <<"object", "size", "keys", "string", "length", "pattern", "trimmed",
    "malicious", "repeated", "allowed">>

ErrorHandled == serverPc = "responded" /\ serverError # NoError

\* The response carries the status, code, message and details of the
\* AppError itself.
OwnResponse(error, response) ==
  /\ response.status = error.statusCode
  /\ response.code = error.code
  /\ response.message = error.message
  /\ response.detail = error.detail
  /\ error.class = "ValidationError" =>
       response.status = BAD_REQUEST /\ response.code = "VALIDATION_ERROR"
  /\ error.class = "AIServiceError" =>
       /\ response.status = SERVICE_UNAVAILABLE
       /\ response.code = "AI_SERVICE_ERROR"

\* 500 / INTERNAL_ERROR with the fixed message and nothing of the error.
OpaqueResponse(response) ==
  /\ response.status = INTERNAL_SERVER_ERROR
  /\ response.code = "INTERNAL_ERROR"
  /\ response.message = "An unexpected error occurred"
  /\ response.detail = ""
  /\ response.field = <<>>

\* 400 / FILE_UPLOAD_ERROR
UploadErrorResponse(response) ==
  response.status = BAD_REQUEST /\ response.code = "FILE_UPLOAD_ERROR"

TextTimeoutMs == 30000
VisionTimeoutMs == 45000

TimeoutWord == <<"t", "i", "m", "e", "o", "u", "t">>

\* What is thrown inside the try block: an AIServiceError, an Error of
\* another class with its message, or a value that is no Error.
Thrown(class, message) == [class |-> class, message |-> message]

\* The Error the timer of the service rejects with.
TimerError(service) ==
  IF service = "text" THEN Thrown("Error", <<"O", "p", "e", "n", "A", "I", " ", "r", "e", "q", "u", "e", "s", "t", " ", "t", "i", "m", "e", "o", "u", "t">>)
  ELSE Thrown("Error", <<"O", "p", "e", "n", "A", "I", " ", "v", "i", "s", "i", "o", "n", " ", "r", "e", "q", "u", "e", "s", "t", " ", "t", "i", "m", "e", "o", "u", "t">>)

\* What the request to OpenAI rejects with, by the way the call says it
\* fails: an API error, a connection that timed out, a value that is no
\* Error.
RequestError(openai) ==
  CASE openai = "rejects" ->
         Thrown("Error", <<"4", "2", "9", " ", "R", "a", "t", "e", " ", "l", "i", "m", "i", "t", " ", "r", "e", "a", "c", "h", "e", "d">>)
    [] openai = "rejectsTimeout" ->
         Thrown("Error", <<"C", "o", "n", "n", "e", "c", "t", "i", "o", "n", " ", "t", "i", "m", "e", "o", "u", "t", ".">>)
    [] openai = "rejectsValue" -> Thrown("string", <<"a", "b", "o", "r", "t", "e", "d">>)

Rejected(message) ==
  [state |-> "rejected", class |-> "AIServiceError", message |-> message]

Fulfilled == [state |-> "fulfilled", class |-> "", message |-> ""]

\* A catch block that throws what it caught.
rethrow(service, error) ==
  [state |-> "rejected", class |-> error.class, message |-> "not wrapped"]

\* The catch block of both services: an AIServiceError is thrown again, an
\* Error whose message includes 'timeout' becomes the timed-out error, and
\* anything else the general failure.
catch(service, error) ==
  IF error.class = "AIServiceError" THEN Rejected(error.message)
  ELSE IF error.class # "string" /\ includes(error.message, TimeoutWord)
  THEN Rejected(IF service = "text"
                THEN "AI service request timed out, please try again"
                ELSE "AI vision service request timed out, please try again")
  ELSE Rejected(IF service = "text"
                THEN "Failed to extract ingredients from dish name"
                ELSE "Failed to analyze food image")

\* The tests of the argument ahead of the request: the message of the
\* AIServiceError thrown, "" when the argument passes.
argumentError(service, argument) ==
  IF service = "text"
  THEN CASE argument = "missing" -> "Invalid dish name provided"
         [] argument = "blank" -> "Dish name cannot be empty"
         [] OTHER -> ""
  ELSE CASE argument = "missing" -> "Invalid image buffer provided"
         [] argument = "oversize" -> "Image file too large for processing"
         [] OTHER -> ""

\* The code after the race for a response whose content is of the given
\* kind: the outcome of the call.
afterRace(service, content) ==
  LET text == service = "text"
  IN  CASE content = "noChoices" ->
             catch(service, Thrown("TypeError",
               <<"C", "a", "n", "n", "o", "t", " ", "r", "e", "a", "d", " ", "p", "r", "o", "p", "e", "r", "t", "i", "e", "s", " ", "o", "f", " ", "u", "n", "d", "e", "f", "i", "n", "e", "d">>))
        [] content = "none" ->
             Rejected(IF text THEN "No response content from LLM"
                      ELSE "No response content from vision model")
        [] content = "tooLarge" ->
             Rejected(IF text THEN "LLM response too large"
                      ELSE "Vision model response too large")
        [] content = "notJson" ->
             Rejected(IF text THEN "Failed to parse LLM response as JSON"
                      ELSE "Failed to parse vision model response as JSON")
        [] content = "noIngredients" ->
             Rejected(IF text THEN "Invalid LLM response structure"
                      ELSE "Invalid vision model response structure")
        [] content = "nullIngredient" ->
             catch(service, Thrown("TypeError",
               <<"C", "a", "n", "n", "o", "t", " ", "r", "e", "a", "d", " ", "p", "r", "o", "p", "e", "r", "t", "i", "e", "s", " ", "o", "f", " ", "n", "u", "l", "l">>))
        [] OTHER -> Fulfilled

\* The calls: the service, its argument, how the request to OpenAI ends and
\* the content of the response when it is fulfilled.
AiCalls ==
  { [service |-> sv, argument |-> a, openai |-> o, content |-> c] :
      sv \in {"text", "vision"},
      a \in {"valid", "missing", "blank", "oversize"},
      o \in {"fulfils", "rejects", "rejectsTimeout", "rejectsValue", "never"},
      c \in {"valid", "noChoices", "none", "tooLarge", "notJson",
             "noIngredients", "nullIngredient"} }

InitAI ==
  /\ aiCall \in AiCalls
  /\ aiPc = "called"
  /\ aiTimer = [state |-> "unset", delay |-> 0]
  /\ aiRequest = "unsent"
  /\ aiOutcome = NoOutcome
  /\ CarbonIdle
  /\ TextIdle
  /\ ImageIdle
  /\ ServerIdle

\* The call up to its await: the tests of the argument, then the timer is
\* set and the request is sent.
StartCall ==
  /\ aiPc = "called"
  /\ IF argumentError(aiCall.service, aiCall.argument) # ""
     THEN /\ aiOutcome' =
               catch(aiCall.service,
                     Thrown("AIServiceError",
                            argumentError(aiCall.service, aiCall.argument)))
          /\ aiPc' = "settled"
          /\ UNCHANGED <<aiTimer, aiRequest>>
     ELSE /\ aiTimer' = [state |-> "armed",
                         delay |-> IF aiCall.service = "text"
                                   THEN TextTimeoutMs ELSE VisionTimeoutMs]
          /\ aiRequest' = "pending"
          /\ aiPc' = "awaiting"
          /\ aiOutcome' = aiOutcome
  /\ UNCHANGED <<aiCall, carbonVars, textVars, imageVars, serverVars>>

\* The request is fulfilled.  When the race is still open the call goes on
\* with the response.
RequestFulfils ==
  /\ aiRequest = "pending"
  /\ aiCall.openai = "fulfils"
  /\ aiRequest' = "fulfilled"
  /\ IF aiPc = "awaiting"
     THEN /\ aiOutcome' = afterRace(aiCall.service, aiCall.content)
          /\ aiPc' = "settled"
     ELSE UNCHANGED <<aiOutcome, aiPc>>
  /\ UNCHANGED <<aiCall, aiTimer, carbonVars, textVars, imageVars,
                 serverVars>>

\* The request is rejected.  When the race is still open the catch block
\* gets what it was rejected with.
RequestRejects ==
  /\ aiRequest = "pending"
  /\ aiCall.openai \in {"rejects", "rejectsTimeout", "rejectsValue"}
  /\ aiRequest' = "rejected"
  /\ IF aiPc = "awaiting"
     THEN /\ aiOutcome' = catch(aiCall.service, RequestError(aiCall.openai))
          /\ aiPc' = "settled"
     ELSE UNCHANGED <<aiOutcome, aiPc>>
  /\ UNCHANGED <<aiCall, aiTimer, carbonVars, textVars, imageVars,
                 serverVars>>

\* The timer, which is never cleared, fires.  When the race is still open
\* the catch block gets the Error of the timer.
TimerFires ==
  /\ aiTimer.state = "armed"
  /\ aiTimer' = [aiTimer EXCEPT !.state = "fired"]
  /\ IF aiPc = "awaiting"
     THEN /\ aiOutcome' = catch(aiCall.service, TimerError(aiCall.service))
          /\ aiPc' = "settled"
     ELSE UNCHANGED <<aiOutcome, aiPc>>
  /\ UNCHANGED <<aiCall, aiRequest, carbonVars, textVars, imageVars,
                 serverVars>>

NextAI ==
  \/ StartCall
  \/ RequestFulfils
  \/ RequestRejects
  \/ TimerFires

\* The event loop runs the call and fires a timer that is due; nothing makes
\* OpenAI answer.
SpecAI ==
  /\ InitAI
  /\ [][NextAI]_vars
  /\ WF_vars(StartCall)
  /\ WF_vars(TimerFires)

\* ------------------------------------------------------------------------
\* Properties of the AI calls
\* ------------------------------------------------------------------------

TimedOutMessage ==
  IF aiCall.service = "text"
  THEN "AI service request timed out, please try again"
  ELSE "AI vision service request timed out, please try again"

\* C27: every call of extractIngredientsFromDish or analyzeImage settles in
\* the end, whether or not the request to OpenAI completes; a timer of 30 s
\* (text) or 45 s (vision) that fires while the call waits makes it reject
\* with the AIServiceError that says the request timed out; every call that
\* rejects does so with an AIServiceError.
C27_AICallSettles ==
  /\ <>(aiPc = "settled")
  /\ [](aiPc = "settled" => aiOutcome.state \in {"fulfilled", "rejected"})
  /\ [](aiOutcome.state = "rejected" => aiOutcome.class = "AIServiceError")
  /\ [](aiTimer.state # "unset" =>
          aiTimer.delay = IF aiCall.service = "text" THEN TextTimeoutMs
                          ELSE VisionTimeoutMs)
  /\ [][(aiPc = "awaiting" /\ aiTimer'.state = "fired") =>
          aiOutcome' = Rejected(TimedOutMessage)]_vars

\* A call whose request never completes was settled by its timer.
C27_Witness ==
  /\ aiCall.openai = "never"
  /\ aiRequest = "pending"
  /\ aiTimer.state = "fired"
  /\ aiPc = "settled"
  /\ aiOutcome = Rejected(TimedOutMessage)

\* ------------------------------------------------------------------------
\* Concurrent invocations of the validators and of calculateCarbonFootprint
\* ------------------------------------------------------------------------

\* The ingredient lists of the concurrent invocations: the empty list, the
\* lists of one ingredient and the lists of one ingredient twice.
CoreLists == {<<>>} \cup {<<m>> : m \in Menu} \cup {<<m, m>> : m \in Menu}

CoreBodies ==
  { NoBody, DishBody(ChickenBiryani), DishBody(ScriptPayload),
    DishBody(<<" ", "r", "i", "c", "e", " ">>) }

\* One invocation of each component has been made and none has run yet.
InitCore ==
  /\ dishName = "Chicken Rice"
  /\ ingredients \in CoreLists
  /\ source = "text"
  /\ pc = "map"
  /\ normalizedName = <<>>
  /\ match = NoMatch
  /\ matcherNormalized = <<>>
  /\ matchTrace = <<>>
  /\ processedIngredients = <<>>
  /\ result = NoResult
  /\ submitted \in CoreBodies
  /\ body = submitted
  /\ textPc = "validate"
  /\ textError = NoError
  /\ textResponse = NoResponse
  /\ textNextCalls = 0
  /\ file \in Uploads
  /\ imagePc = "validate"
  /\ imageError = NoError
  /\ imageNextCalls = 0
  /\ ServerIdle
  /\ AiIdle

\* The steps of the three invocations in any order.
NextCore ==
  \/ Normalize
  \/ Match
  \/ Blend
  \/ Return
  \/ ValidateTextEstimation
  \/ ErrorHandler
  \/ ValidateImageUpload

\* A handler that was called runs.
SpecCore ==
  /\ InitCore
  /\ [][NextCore]_vars
  /\ WF_vars(ValidateTextEstimation)
  /\ WF_vars(ValidateImageUpload)

\* The entries calculateCarbonFootprint builds for a list when it runs
\* alone.
processedAlone(list) ==
  [i \in 1..Len(list) |->
     processIngredient(list[i],
       findBestIngredientMatch(normalizeIngredientName(list[i].name),
                               CARBON_FOOTPRINT_DB))]

C29_NextCalledOnce ==
  /\ <>(textNextCalls = 1 /\ imageNextCalls = 1)
  /\ [](/\ textNextCalls <= 1 /\ imageNextCalls <= 1
        /\ TextValidated <=> textNextCalls = 1
        /\ ImageValidated <=> imageNextCalls = 1
        /\ TextAccepted <=> (textNextCalls = 1 /\ textError = NoError)
        /\ ImageAccepted <=> (imageNextCalls = 1 /\ imageError = NoError))

\* Both validators have called next, one without and one with an error.
C29_Witness ==
  /\ textNextCalls = 1
  /\ imageNextCalls = 1
  /\ TextAccepted
  /\ ImageRejected
  /\ imageError.class = "ValidationError"

\* ------------------------------------------------------------------------
\* The matcher on a name and on its normalized form
\* ------------------------------------------------------------------------

\* C30: the matcher gives the same result for a name and for its normalized
\* form: the match calculateCarbonFootprint obtains by normalizing the name
\* before it calls the matcher equals the match of a direct call of the
\* matcher on the raw name.
C30_MatchOfNormalizedName ==
  (pc = "blend" /\ IsString(current.name)) =>
    match = findBestIngredientMatch(current.name, CARBON_FOOTPRINT_DB)

====
